---- MODULE Spec2Model ----
(***************************************************************************)
(* CUR conversion engine (go/curconvert/curconvert.go): manifest parsing,  *)
(* the per-shard download -> parquet -> upload workers of ConvertCur, the  *)
(* live-set map CurParqetFiles and the destination clean-up CleanCur.      *)
(*                                                                         *)
(* Strings are sequences of one-character strings, so that lower-casing    *)
(* and character substitution are computed and not assumed.  Object keys   *)
(* of the destination bucket are naturals whose numeric order stands for   *)
(* the lexicographic order in which S3 lists keys.                         *)
(***************************************************************************)
EXTENDS Integers, Sequences, FiniteSets, TLC

(* ------------------------------ bounds -------------------------------- *)
\* longest reportKeys list of a manifest
MaxShards == 2
\* longest columns list of a manifest
MaxCols == 3
\* largest fileConcurrency a caller sets explicitly (besides the default)
MaxConc == 2
\* how many stale objects more than one list page the prefix may hold
ExtraStale == 1
\* how many invocations of the converter in a row are followed
MaxRuns == 2
\* how many deletions a failing batch delete completes at most
MaxPartial == 1

(* --------------------------- program constants ------------------------ *)
\* NewCurConvert: cur.fileConcurrency = 30
DefaultFileConcurrency == 30
\* SetFileConcurrency: concurrency > 1000 is refused
MaxFileConcurrency == 1000
\* CleanCur: MaxKeys: aws.Int64(500)
MaxKeys == 500

(* ------------------------------ strings ------------------------------- *)
Upper == <<"A","B","C","D","E","F","G","H","I","J","K","L","M",
           "N","O","P","Q","R","S","T","U","V","W","X","Y","Z">>
Lower == <<"a","b","c","d","e","f","g","h","i","j","k","l","m",
           "n","o","p","q","r","s","t","u","v","w","x","y","z">>
Digits == {"0","1","2","3","4","5","6","7","8","9"}
LowerSet == {Lower[i] : i \in 1..26}

\* strings.ToLower on one rune
ToLowerRune(r) ==
  IF \E i \in 1..26 : Upper[i] = r
  THEN Lower[CHOOSE i \in 1..26 : Upper[i] = r]
  ELSE r

\* a rune mapping that substitutes nothing
MapRuneKeep(r) == r

\* the rune mapping r of ParseCur: a-z, 0-9 and '/' are kept, the rest is '_'
MapRune(r) ==
  IF r \in LowerSet \/ r \in Digits \/ r = "/" THEN r ELSE "_"

\* strings.Map(r, strings.ToLower(columnName))
Canonicalize(s) == [i \in 1..Len(s) |-> MapRune(ToLowerRune(s[i]))]

\* t["category"].(string) + "/" + t["name"].(string)
RawName(col) == col.category \o <<"/">> \o col.name

\* cur.CurColumnTypes: the type over-rides set by NewCurConvert
CurColumnTypes == {
  <<"l", "i", "n", "e", "i", "t", "e", "m", "/", "u", "s", "a", "g", "e", "a", "m", "o", "u", "n", "t">>,
  <<"l", "i", "n", "e", "i", "t", "e", "m", "/", "n", "o", "r", "m", "a", "l", "i", "z", "a", "t", "i", "o", "n", "f", "a", "c", "t", "o", "r">>,
  <<"l", "i", "n", "e", "i", "t", "e", "m", "/", "n", "o", "r", "m", "a", "l", "i", "z", "e", "d", "u", "s", "a", "g", "e", "a", "m", "o", "u", "n", "t">>,
  <<"l", "i", "n", "e", "i", "t", "e", "m", "/", "u", "n", "b", "l", "e", "n", "d", "e", "d", "r", "a", "t", "e">>,
  <<"l", "i", "n", "e", "i", "t", "e", "m", "/", "u", "n", "b", "l", "e", "n", "d", "e", "d", "c", "o", "s", "t">>,
  <<"l", "i", "n", "e", "i", "t", "e", "m", "/", "b", "l", "e", "n", "d", "e", "d", "r", "a", "t", "e">>,
  <<"l", "i", "n", "e", "i", "t", "e", "m", "/", "b", "l", "e", "n", "d", "e", "d", "c", "o", "s", "t">>,
  <<"p", "r", "i", "c", "i", "n", "g", "/", "p", "u", "b", "l", "i", "c", "o", "n", "d", "e", "m", "a", "n", "d", "c", "o", "s", "t">>,
  <<"p", "r", "i", "c", "i", "n", "g", "/", "p", "u", "b", "l", "i", "c", "o", "n", "d", "e", "m", "a", "n", "d", "r", "a", "t", "e">>,
  <<"r", "e", "s", "e", "r", "v", "a", "t", "i", "o", "n", "/", "n", "o", "r", "m", "a", "l", "i", "z", "e", "d", "u", "n", "i", "t", "s", "p", "e", "r", "r", "e", "s", "e", "r", "v", "a", "t", "i", "o", "n">>,
  <<"r", "e", "s", "e", "r", "v", "a", "t", "i", "o", "n", "/", "t", "o", "t", "a", "l", "r", "e", "s", "e", "r", "v", "e", "d", "n", "o", "r", "m", "a", "l", "i", "z", "e", "d", "u", "n", "i", "t", "s">>,
  <<"r", "e", "s", "e", "r", "v", "a", "t", "i", "o", "n", "/", "t", "o", "t", "a", "l", "r", "e", "s", "e", "r", "v", "e", "d", "u", "n", "i", "t", "s">>,
  <<"r", "e", "s", "e", "r", "v", "a", "t", "i", "o", "n", "/", "u", "n", "i", "t", "s", "p", "e", "r", "r", "e", "s", "e", "r", "v", "a", "t", "i", "o", "n">> }

(* ------------------------------ inputs -------------------------------- *)
\* "a"-"B"/"b" collide after lower-casing, "b c"/"b_c" after substitution;
\* "T:1" carries an upper-case letter, a substituted character and a digit
CategoryPool == { <<"a">>, <<"l","i","n","e","I","t","e","m">> }
NamePool == { <<"B">>, <<"b">>, <<"b"," ","c">>, <<"b","_","c">>,
              <<"T",":","1">>,
              <<"U","s","a","g","e","A","m","o","u","n","t">> }
ColumnPool == [category : CategoryPool, name : NamePool]

\* a shard key <dir>/<stem>.<ext>: two keys of the pool share their basename
ShardSeq == << [dir |-> 1, stem |-> 1, ext |-> 1],
               [dir |-> 2, stem |-> 1, ext |-> 1],
               [dir |-> 1, stem |-> 2, ext |-> 1] >>
ShardPool == {ShardSeq[i] : i \in DOMAIN ShardSeq}

SeqsUpTo(S, n) == UNION {[1..k -> S] : k \in 0..n}

\* the reportKeys lists: the goroutines are started together and alike, so
\* a list stands for its permutations and is taken in pool order
ShardLists(n) ==
  { [i \in DOMAIN f |-> ShardSeq[f[i]]] :
      f \in { g \in SeqsUpTo(DOMAIN ShardSeq, n) :
                \A i \in DOMAIN g : i = 1 \/ g[i - 1] <= g[i] } }

\* the keys ParseCur reads from the decoded manifest object
ManifestKeys == {"columns", "reportKeys"}

\* manifests that hold both keys, and manifests that lack one or both (a key
\* that is absent has no list)
Manifests(colLists, keyLists) ==
  [columns : colLists, reportKeys : keyLists, keys : {ManifestKeys}]
    \cup [columns : {<< >>}, reportKeys : keyLists, keys : {{"reportKeys"}}]
    \cup [columns : colLists, reportKeys : {<< >>}, keys : {{"columns"}}]
    \cup [columns : {<< >>}, reportKeys : {<< >>}, keys : {{}}]

\* the columns of the manifest the conversion runs are followed with
PipelineColumns == << [category |-> <<"a">>, name |-> <<"B">>],
                      [category |-> <<"a">>, name |-> <<"b">>] >>

(* ------------------------------- state -------------------------------- *)
VARIABLES
  manifest,         \* the manifest object: [columns, reportKeys, keys]
  fileConcurrency,  \* c.fileConcurrency
  CurColumns,       \* c.CurColumns: the emitted schema, in order
  CurFiles,         \* c.CurFiles: the shard keys
  skipCols,         \* c.skipCols: the 0-based positions marked skip
  CurParqetFiles,   \* c.CurParqetFiles: the live set
  proc,             \* "running" | "exited": the operating-system process
  run,              \* which invocation this is
  mainPc,           \* "new" | "collect" | "clean" | "returned"
  ret,              \* what ConvertCur / ParseCur returned ("none" before)
  nrecv,            \* the loop variable w of ConvertCur's receive loop
  recvLog,          \* the values main received on result, in order
  wkey,             \* the shard key each goroutine was started with
  wpc,              \* where each goroutine is
  werr,             \* the error a goroutine is about to send
  limit,            \* number of values buffered in the channel limit
  mapWriters,       \* goroutines inside the assignment to CurParqetFiles
  raced,            \* goroutines whose assignment overlapped another one
  dest,             \* keys of the objects under destPath/ in the bucket
  tmp,              \* files present in tempDir
  nDownload,        \* per goroutine: downloads started
  nParquet,         \* per goroutine: transcodes completed
  nUpload,          \* per goroutine: uploads completed
  uploaded,         \* keys this run has uploaded
  deleted,          \* keys this run's CleanCur has deleted
  destAfter,        \* the keys under destPath/ after each successful run
  shardData,        \* per shard key: what the downloaded object holds
  pq,               \* per goroutine: ParquetCur's reader, writer and position
  qEngine,          \* the engine's side of the query: [state, reason]
  qPc,              \* where sendQuery is
  qSeen,            \* the states sendQuery's polls have observed, in order
  qrop,             \* the status the last poll returned
  qPagesIn,         \* the pages the engine delivers the result in
  qNext,            \* the page GetQueryResultsPages hands over next
  colNames,         \* sendQuery: colNames
  results,          \* sendQuery: results.Rows
  qRet,             \* what sendQuery returned
  rsIn,             \* findTagMatch: its arguments
  rsOut,            \* findTagMatch: what it returned
  resp,             \* processResults: resp.Rows
  conf,             \* processResults, printResults: the Config
  agPc,             \* "aggregate" until printResults has returned, then "done"
  rowAt,            \* processResults: the row its loop is at
  aggr,             \* processResults: r, the Results
  rowTags,          \* the tags of every row gone through ("skipped" rows: << >>)
  slack,            \* the rounding of the additions made so far, summed up
  out,              \* what each run of printResults wrote, line by line
  spIn,             \* substituteParams: its arguments
  sql,              \* substituteParams: sql
  spLeft,           \* substituteParams: the keys range params has yet to give
  spRet,            \* substituteParams: what it returned
  cbIn,             \* costbytag: the flag riUsage and what the engine answers
  cbPc,             \* costbytag: where the Action is
  inFlight,         \* the queries sent whose sendQuery has not returned
  queries,          \* the queries sent so far, in order
  tagCost,          \* costbytag: tagCost.Rows
  mpIn,             \* the metric facility: conf.Metrics
  mpMain,           \* main of the metric facility: where it is
  mpNext,           \* the job main sends next
  jobs,             \* the job main is sending on the channel jobs (0: none)
  jobsClosed,       \* close(jobs) has been called
  mwPc,             \* where each worker of the pool is
  mwJob,            \* the job each worker holds (0: none)
  took,             \* for each job sent, the workers that received it
  jobLog,           \* for each job sent, how each run of it ended
  nDone,            \* the values main has received from the channel done
  mpProc            \* the process of the metric facility

vars == << manifest, fileConcurrency, CurColumns, CurFiles, skipCols,
           CurParqetFiles, proc, run, mainPc, ret, nrecv, recvLog, wkey, wpc,
           werr, limit, mapWriters, raced, dest, tmp, nDownload, nParquet,
           nUpload, uploaded, deleted, destAfter, shardData, pq,
           qEngine, qPc, qSeen, qrop, qPagesIn, qNext, colNames, results,
           qRet, rsIn, rsOut,
           resp, conf, agPc, rowAt, aggr, rowTags, slack, out,
           spIn, sql, spLeft, spRet,
           cbIn, cbPc, inFlight, queries, tagCost,
           mpIn, mpMain, mpNext, jobs, jobsClosed, mwPc, mwJob, took, jobLog,
           nDone, mpProc >>

convVars == << CurColumns, CurFiles, skipCols >>
countVars == << nDownload, nParquet, nUpload >>
histVars == << uploaded, deleted, destAfter >>
\* the pipeline: everything ConvertCur and its goroutines read and write
pipeVars == << manifest, fileConcurrency, CurColumns, CurFiles, skipCols,
               CurParqetFiles, proc, run, mainPc, ret, nrecv, recvLog, wkey,
               wpc, werr, limit, mapWriters, raced, dest, tmp, nDownload,
               nParquet, nUpload, uploaded, deleted, destAfter >>
\* the inside of one ParquetCur call
tcVars == << shardData, pq >>
\* one call of the cost front-end's sendQuery
qVars == << qEngine, qPc, qSeen, qrop, qPagesIn, qNext, colNames, results,
            qRet >>
\* one call of the cost front-end's findTagMatch
rsVars == << rsIn, rsOut >>
\* processResults and printResults over one query result
agVars == << resp, conf, agPc, rowAt, aggr, rowTags, slack, out >>
\* one call of substituteParams
spVars == << spIn, sql, spLeft, spRet >>
\* the stages of costbytag around the query
\* one run of the Action of costbytag
cbVars == << cbIn, cbPc, inFlight, queries, tagCost >>
\* the worker pool of the metric facility
mpVars == << mpIn, mpMain, mpNext, jobs, jobsClosed, mwPc, mwJob, took,
            jobLog, nDone, mpProc >>
costVars == << agVars, spVars, cbVars, mpVars >>
\* what a step of one of these stages leaves alone
agRest == << spVars, cbVars, mpVars >>
spRest == << agVars, cbVars, mpVars >>
cbRest == << agVars, spVars, mpVars >>
mpRest == << agVars, spVars, cbVars >>
\* the cost front-end, a program of its own
farVars == << qVars, rsVars, costVars >>
\* what a step of the pipeline that is followed as a whole leaves alone
auxVars == << tcVars, farVars >>

Workers == DOMAIN wpc

(* ----------------------------- ParseCur -------------------------------- *)
\* the type over-ride lookup of ParseCur
ColType(name) == IF name \in CurColumnTypes THEN "DOUBLE" ELSE "UTF8"

\* as IsDuplicate, were the seen map never consulted
IsDuplicateNever(name, seen) == FALSE

\* if _, ok := seen[columnName]; ok
IsDuplicate(name, seen) == name \in seen

\* the loop over cols: i is the 1-based position, i - 1 the code's i
RECURSIVE ParseLoop(_, _, _)
ParseLoop(cols, i, st) ==
  IF i > Len(cols) THEN st
  ELSE LET columnName == Canonicalize(RawName(cols[i])) IN
       IF IsDuplicate(columnName, st.seen)
       THEN ParseLoop(cols, i + 1, [st EXCEPT !.skip = @ \cup {i - 1}])
       ELSE ParseLoop(cols, i + 1,
                      [seen |-> st.seen \cup {columnName},
                       skip |-> st.skip,
                       out  |-> Append(st.out,
                                       [name |-> columnName,
                                        type |-> ColType(columnName)])])

\* the converter's fields after ParseCur returned nil: skipCols is made
\* anew, CurColumns and CurFiles are appended to
ParseCurColumns(m, cols0) ==
  ParseLoop(m.columns, 1, [seen |-> {}, skip |-> {}, out |-> cols0])

ParseCurFiles(m, files0) == files0 \o m.reportKeys

(* --------------------------- file and key names ------------------------ *)
\* DownloadCur: tempDir + "/" + curObject[LastIndex(curObject, "/")+1:]
LocalFile(curObject) == [kind |-> "gz", stem |-> curObject.stem, ext |-> curObject.ext]

\* ParquetCur: tempDir + "/" + inputFile[LastIndex("/")+1 : Index(".")] + ".parquet"
LocalParquetFile(inputFile) == [kind |-> "parquet", stem |-> inputFile.stem]

\* UploadCur: c.destObject + "/" + parquetFile[LastIndex(parquetFile, "/")+1:]
\* keys under destPath/ are naturals: <stem>.parquet is the natural stem
DestObject(parquetFile) == parquetFile.stem

PoolKeys == {DestObject(LocalParquetFile(LocalFile(k))) : k \in ShardPool}

MaxOf(S) == CHOOSE x \in S : \A y \in S : y <= x

\* n objects under destPath/ that no shard of the pool produces; they list
\* after the converter's own keys
StaleKeys(n) == {MaxOf(PoolKeys) + i : i \in 1..n}

(* ------------------------------ channels ------------------------------- *)
\* as CanSendLimit, were limit a channel that never fills
CanSendLimitAlways(len, cap) == TRUE

\* a send on the buffered channel limit proceeds only while it is not full
CanSendLimit(len, cap) == len < cap

\* as ReturnsOnError, were the received error dropped
ReturnsOnErrorNever(err) == FALSE

\* the receive loop: if err != nil { return err }
ReturnsOnError(err) == err # "nil"

\* as WorkerArgs, were the loop variable captured by the closure and not
\* passed as an argument: every goroutine sees the last key
WorkerArgsCaptured(files) == [w \in 1..Len(files) |-> files[Len(files)]]

\* go func(object string) {...}(c.CurFiles[reportKey]): one goroutine per
\* position of c.CurFiles, started with the key at that position
WorkerArgs(files) == [w \in 1..Len(files) |-> files[w]]

\* ListObjectsV2 with MaxKeys: the first n keys under the prefix, in key order
ListObjects(S, n) ==
  IF Cardinality(S) <= n THEN S
  ELSE {k \in S : Cardinality({j \in S : j < k}) < n}

\* CleanCur: every listed key that is not in c.CurParqetFiles
DeleteObjects(listed, live) == listed \ live

Min(a, b) == IF a < b THEN a ELSE b

(* ------------------------------- Init ---------------------------------- *)
\* what is under destPath/ before the first run
PreExisting == { {}, StaleKeys(1), PoolKeys \cup StaleKeys(1) }

\* a prefix holding a full list page of stale objects, and more
PreExistingMany == { StaleKeys(MaxKeys), StaleKeys(MaxKeys + ExtraStale) }

\* NewCurConvert
FreshConverter ==
  /\ fileConcurrency = DefaultFileConcurrency
  /\ CurColumns = << >>
  /\ CurFiles = << >>
  /\ skipCols = {}
  /\ CurParqetFiles = {}

NoRunYet ==
  /\ proc = "running" /\ run = 1 /\ mainPc = "new" /\ ret = "none"
  /\ nrecv = 0 /\ recvLog = << >>
  /\ wkey = << >> /\ wpc = << >> /\ werr = << >> /\ limit = 0
  /\ mapWriters = {} /\ raced = {}
  /\ tmp = {}
  /\ nDownload = << >> /\ nParquet = << >> /\ nUpload = << >>
  /\ uploaded = {} /\ deleted = {} /\ destAfter = << >>

\* no ParquetCur call is followed record by record
NoTranscode == shardData = << >> /\ pq = << >>

\* a status without StateChangeReason
NoReason == "<nil>"

\* what sendQuery returns: the error (or "nil"), and with the error about the
\* query state the state and the reason its text carries
Returned(e, state, reason) == [err |-> e, state |-> state, reason |-> reason]
NotReturned == Returned("none", "", "")

\* sendQuery has not been called
NoQuery ==
  /\ qEngine = [state |-> "QUEUED", reason |-> NoReason]
  /\ qPc = "start" /\ qSeen = << >>
  /\ qrop = [state |-> "QUEUED", reason |-> NoReason]
  /\ qNext = 1 /\ colNames = << >> /\ results = << >>
  /\ qRet = NotReturned

\* findTagMatch has not returned
NotResolved == [done |-> FALSE, match |-> << >>, err |-> FALSE]
NoResolve == rsIn = << >> /\ rsOut = NotResolved

\* r := &Results{tagCosts: make(map[string]float64), total: 0}
NewResults == [tagCosts |-> << >>, total |-> 0]

\* substituteParams has not returned
NotSubstituted == [done |-> FALSE, sql |-> << >>]
NoSubstitute ==
  /\ spIn = << >> /\ sql = << >> /\ spLeft = {} /\ spRet = NotSubstituted

\* costbytag has not been started
NoCostByTag ==
  /\ cbIn = << >> /\ cbPc = "done" /\ inFlight = {}
  /\ queries = << >> /\ tagCost = << >>

\* the metric facility has not been started
NoPool ==
  /\ mpIn = << >> /\ mpMain = "returned" /\ mpNext = 1 /\ jobs = 0
  /\ jobsClosed = FALSE /\ mwPc = << >> /\ mwJob = << >>
  /\ took = << >> /\ jobLog = << >> /\ nDone = 0 /\ mpProc = "running"

\* processResults has not been called
NoAggregate ==
  /\ resp = << >> /\ conf = << >>
  /\ agPc = "done" /\ rowAt = 1 /\ aggr = NewResults
  /\ rowTags = << >> /\ slack = 0 /\ out = << >>

Init ==
  /\ manifest \in Manifests({PipelineColumns}, ShardLists(MaxShards))
  /\ dest \in PreExisting
  /\ FreshConverter
  /\ NoRunYet
  /\ NoTranscode
  /\ NoQuery /\ qPagesIn = << >>
  /\ NoResolve
  /\ NoAggregate
  /\ NoSubstitute
  /\ NoCostByTag
  /\ NoPool

(* ------------------------------ actions -------------------------------- *)
\* the values a caller passes to SetFileConcurrency
ConcInputs == 0..MaxConc \cup {MaxFileConcurrency + 1}

SetFileConcurrency(concurrency) ==
  /\ UNCHANGED auxVars
  /\ proc = "running" /\ mainPc = "new" /\ run = 1
  /\ fileConcurrency' =
       IF concurrency < 1 \/ concurrency > MaxFileConcurrency
       THEN fileConcurrency
       ELSE concurrency
  /\ UNCHANGED << manifest, CurColumns, CurFiles, skipCols, CurParqetFiles,
                  proc, run, mainPc, ret, nrecv, recvLog, wkey, wpc, werr,
                  limit, mapWriters, raced, dest, tmp, nDownload, nParquet,
                  nUpload, uploaded, deleted, destAfter >>

\* ParseCur called on its own
ParseCurCall ==
  /\ UNCHANGED auxVars
  /\ proc = "running" /\ mainPc = "new"
  /\ \/ \* the manifest cannot be downloaded
        /\ mainPc' = "parsed"
        /\ ret' = "ErrParse"
        /\ UNCHANGED << convVars, proc >>
     \/ \* j["columns"] is nil: the type assertion panics
        /\ "columns" \notin manifest.keys
        /\ proc' = "exited"
        /\ UNCHANGED << convVars, mainPc, ret >>
     \/ \* j["reportKeys"] is nil: the type assertion panics, columns stored
        /\ "columns" \in manifest.keys /\ "reportKeys" \notin manifest.keys
        /\ LET st == ParseCurColumns(manifest, CurColumns) IN
             /\ CurColumns' = st.out
             /\ skipCols' = st.skip
        /\ proc' = "exited"
        /\ UNCHANGED << CurFiles, mainPc, ret >>
     \/ /\ manifest.keys = ManifestKeys
        /\ LET st == ParseCurColumns(manifest, CurColumns) IN
             /\ CurColumns' = st.out
             /\ skipCols' = st.skip
        /\ CurFiles' = ParseCurFiles(manifest, CurFiles)
        /\ mainPc' = "parsed"
        /\ ret' = "nil"
        /\ UNCHANGED proc
  /\ UNCHANGED << manifest, fileConcurrency, CurParqetFiles, run, nrecv,
                  recvLog, wkey, wpc, werr, limit, mapWriters, raced, dest,
                  tmp, countVars, histVars >>

\* ConvertCur up to its receive loop: ParseCur, the two channels, one
\* goroutine per shard
ConvertCurStart ==
  /\ UNCHANGED auxVars
  /\ proc = "running" /\ mainPc = "new"
  /\ \/ \* the manifest cannot be downloaded
        /\ ret' = "ErrParse"
        /\ mainPc' = "returned"
        /\ UNCHANGED << convVars, wkey, wpc, werr, countVars, proc >>
     \/ \* ParseCur panics on j["columns"]
        /\ "columns" \notin manifest.keys
        /\ proc' = "exited"
        /\ UNCHANGED << convVars, wkey, wpc, werr, countVars, mainPc, ret >>
     \/ \* ParseCur panics on j["reportKeys"], columns stored
        /\ "columns" \in manifest.keys /\ "reportKeys" \notin manifest.keys
        /\ LET st == ParseCurColumns(manifest, CurColumns) IN
             /\ CurColumns' = st.out
             /\ skipCols' = st.skip
        /\ proc' = "exited"
        /\ UNCHANGED << CurFiles, wkey, wpc, werr, countVars, mainPc, ret >>
     \/ LET st == ParseCurColumns(manifest, CurColumns)
            files == ParseCurFiles(manifest, CurFiles)
            n == Len(files)
        IN /\ manifest.keys = ManifestKeys
           /\ UNCHANGED proc
           /\ CurColumns' = st.out
           /\ skipCols' = st.skip
           /\ CurFiles' = files
           /\ wkey' = WorkerArgs(files)
           /\ wpc' = [w \in 1..n |-> "acquire"]
           /\ werr' = [w \in 1..n |-> "nil"]
           /\ nDownload' = [w \in 1..n |-> 0]
           /\ nParquet' = [w \in 1..n |-> 0]
           /\ nUpload' = [w \in 1..n |-> 0]
           /\ mainPc' = IF n = 0 THEN "clean" ELSE "collect"
           /\ ret' = ret
  /\ UNCHANGED << manifest, fileConcurrency, CurParqetFiles, run, nrecv,
                  recvLog, limit, mapWriters, raced, dest, tmp, histVars >>

\* limit <- true
Acquire(w) ==
  /\ UNCHANGED auxVars
  /\ proc = "running" /\ wpc[w] = "acquire"
  /\ CanSendLimit(limit, fileConcurrency)
  /\ limit' = limit + 1
  /\ wpc' = [wpc EXCEPT ![w] = "download"]
  /\ UNCHANGED << manifest, fileConcurrency, convVars, CurParqetFiles, proc,
                  run, mainPc, ret, nrecv, recvLog, wkey, werr, mapWriters,
                  raced, dest, tmp, countVars, histVars >>

\* DownloadCur, and the error branch that follows it in the goroutine
Download(w) ==
  /\ UNCHANGED auxVars
  /\ proc = "running" /\ wpc[w] = "download"
  /\ nDownload' = [nDownload EXCEPT ![w] = @ + 1]
  /\ \/ \* the download fails: the file os.Create made stays
        /\ tmp' = tmp \cup {LocalFile(wkey[w])}
        /\ wpc' = [wpc EXCEPT ![w] = "send"]
        /\ werr' = [werr EXCEPT ![w] = "ErrDownload"]
     \/ /\ tmp' = tmp \cup {LocalFile(wkey[w])}
        /\ wpc' = [wpc EXCEPT ![w] = "parquet"]
        /\ werr' = werr
  /\ UNCHANGED << manifest, fileConcurrency, convVars, CurParqetFiles, proc,
                  run, mainPc, ret, nrecv, recvLog, wkey, limit, mapWriters,
                  raced, dest, nParquet, nUpload, histVars >>

\* ParquetCur, and the error branch that follows it in the goroutine
ParquetCur(w) ==
  LET inputFile == LocalFile(wkey[w]) IN
  /\ UNCHANGED auxVars
  /\ proc = "running" /\ wpc[w] = "parquet"
  /\ \/ \* os.Open fails: the file is gone
        /\ inputFile \notin tmp
        /\ tmp' = tmp
        /\ wpc' = [wpc EXCEPT ![w] = "send"]
        /\ werr' = [werr EXCEPT ![w] = "ErrConvert"]
        /\ UNCHANGED << proc, nParquet >>
     \/ \* a record cannot be read after the parquet file was created
        /\ inputFile \in tmp
        /\ tmp' = tmp \cup {LocalParquetFile(inputFile)}
        /\ wpc' = [wpc EXCEPT ![w] = "send"]
        /\ werr' = [werr EXCEPT ![w] = "ErrConvert"]
        /\ UNCHANGED << proc, nParquet >>
     \/ \* gzip.NewReader or the header read fails: log.Fatal
        /\ inputFile \in tmp
        /\ proc' = "exited"
        /\ UNCHANGED << tmp, wpc, werr, nParquet >>
     \/ /\ inputFile \in tmp
        /\ tmp' = tmp \cup {LocalParquetFile(inputFile)}
        /\ wpc' = [wpc EXCEPT ![w] = "upload"]
        /\ nParquet' = [nParquet EXCEPT ![w] = @ + 1]
        /\ UNCHANGED << proc, werr >>
  /\ UNCHANGED << manifest, fileConcurrency, convVars, CurParqetFiles, run,
                  mainPc, ret, nrecv, recvLog, wkey, limit, mapWriters, raced,
                  dest, nDownload, nUpload, histVars >>

\* UploadCur up to the upload's return, and the error branch
Upload(w) ==
  LET parquetFile == LocalParquetFile(LocalFile(wkey[w])) IN
  /\ UNCHANGED auxVars
  /\ proc = "running" /\ wpc[w] = "upload"
  /\ \/ \* os.Open fails (the file is gone), or the upload fails
        /\ wpc' = [wpc EXCEPT ![w] = "send"]
        /\ werr' = [werr EXCEPT ![w] = "ErrUpload"]
        /\ UNCHANGED << dest, nUpload, uploaded >>
     \/ /\ parquetFile \in tmp
        /\ dest' = dest \cup {DestObject(parquetFile)}
        /\ uploaded' = uploaded \cup {DestObject(parquetFile)}
        /\ nUpload' = [nUpload EXCEPT ![w] = @ + 1]
        /\ wpc' = [wpc EXCEPT ![w] = "mapassign"]
        /\ werr' = werr
  /\ UNCHANGED << manifest, fileConcurrency, convVars, CurParqetFiles, proc,
                  run, mainPc, ret, nrecv, recvLog, wkey, limit, mapWriters,
                  raced, tmp, nDownload, nParquet, deleted, destAfter >>

\* c.CurParqetFiles[destObject] = true begins: a Go map assignment is not
\* atomic and the map has no lock
MapAssignBegin(w) ==
  /\ UNCHANGED auxVars
  /\ proc = "running" /\ wpc[w] = "mapassign"
  /\ wpc' = [wpc EXCEPT ![w] = "mapassigning"]
  /\ mapWriters' = mapWriters \cup {w}
  /\ raced' = IF mapWriters # {} THEN raced \cup mapWriters \cup {w} ELSE raced
  /\ UNCHANGED << manifest, fileConcurrency, convVars, CurParqetFiles, proc,
                  run, mainPc, ret, nrecv, recvLog, wkey, werr, limit, dest,
                  tmp, countVars, histVars >>

\* the assignment ends.  One that overlapped another goroutine's is a data
\* race: the entry is stored, or it is lost, or the runtime stops the
\* process ("fatal error: concurrent map writes")
MapAssignEnd(w) ==
  LET destObject == DestObject(LocalParquetFile(LocalFile(wkey[w]))) IN
  /\ UNCHANGED auxVars
  /\ proc = "running" /\ wpc[w] = "mapassigning"
  /\ mapWriters' = mapWriters \ {w}
  /\ raced' = raced \ {w}
  /\ \/ /\ CurParqetFiles' = CurParqetFiles \cup {destObject}
        /\ wpc' = [wpc EXCEPT ![w] = "remove"]
        /\ proc' = proc
     \/ /\ w \in raced
        /\ CurParqetFiles' = CurParqetFiles
        /\ wpc' = [wpc EXCEPT ![w] = "remove"]
        /\ proc' = proc
     \/ /\ w \in raced
        /\ proc' = "exited"
        /\ UNCHANGED << CurParqetFiles, wpc >>
  /\ UNCHANGED << manifest, fileConcurrency, convVars, run, mainPc, ret,
                  nrecv, recvLog, wkey, werr, limit, dest, tmp, countVars,
                  histVars >>

\* os.Remove(gzipFile); os.Remove(parquetFile)
Remove(w) ==
  LET gzipFile == LocalFile(wkey[w]) IN
  /\ UNCHANGED auxVars
  /\ proc = "running" /\ wpc[w] = "remove"
  /\ tmp' = tmp \ {gzipFile, LocalParquetFile(gzipFile)}
  /\ wpc' = [wpc EXCEPT ![w] = "release"]
  /\ UNCHANGED << manifest, fileConcurrency, convVars, CurParqetFiles, proc,
                  run, mainPc, ret, nrecv, recvLog, wkey, werr, limit,
                  mapWriters, raced, dest, countVars, histVars >>

\* <-limit
Release(w) ==
  /\ UNCHANGED auxVars
  /\ proc = "running" /\ wpc[w] = "release"
  /\ limit > 0
  /\ limit' = limit - 1
  /\ wpc' = [wpc EXCEPT ![w] = "send"]
  /\ UNCHANGED << manifest, fileConcurrency, convVars, CurParqetFiles, proc,
                  run, mainPc, ret, nrecv, recvLog, wkey, werr, mapWriters,
                  raced, dest, tmp, countVars, histVars >>

\* result is unbuffered: a goroutine's send and one iteration of ConvertCur's
\* receive loop happen together
Receive(w) ==
  /\ UNCHANGED auxVars
  /\ proc = "running" /\ mainPc = "collect" /\ wpc[w] = "send"
  /\ wpc' = [wpc EXCEPT ![w] = "done"]
  /\ recvLog' = Append(recvLog, werr[w])
  /\ IF ReturnsOnError(werr[w])
     THEN /\ ret' = werr[w]
          /\ mainPc' = "returned"
          /\ nrecv' = nrecv
     ELSE /\ ret' = ret
          /\ nrecv' = nrecv + 1
          /\ mainPc' = IF nrecv + 1 = Len(CurFiles) THEN "clean" ELSE "collect"
  /\ UNCHANGED << manifest, fileConcurrency, convVars, CurParqetFiles, proc,
                  run, wkey, werr, limit, mapWriters, raced, dest, tmp,
                  countVars, histVars >>

\* return c.CleanCur()
CleanCur ==
  LET listed == ListObjects(dest, MaxKeys)
      deleteObjects == DeleteObjects(listed, CurParqetFiles)
  IN
  /\ UNCHANGED auxVars
  /\ proc = "running" /\ mainPc = "clean"
  /\ mainPc' = "returned"
  /\ \/ \* initS3Uploader or ListObjectsV2 fails
        /\ ret' = "ErrList"
        /\ UNCHANGED << dest, deleted, destAfter >>
     \/ \* the batch delete fails part-way: only the first k are deleted
        /\ deleteObjects # {}
        /\ \E k \in 0..Min(MaxPartial, Cardinality(deleteObjects) - 1) :
             LET gone == ListObjects(deleteObjects, k) IN
             /\ dest' = dest \ gone
             /\ deleted' = gone
        /\ ret' = "ErrDelete"
        /\ UNCHANGED destAfter
     \/ /\ dest' = dest \ deleteObjects
        /\ deleted' = deleteObjects
        /\ ret' = "ok"
        /\ destAfter' = Append(destAfter, dest')
  /\ UNCHANGED << manifest, fileConcurrency, convVars, CurParqetFiles, proc,
                  run, nrecv, recvLog, wkey, wpc, werr, limit, mapWriters,
                  raced, tmp, countVars, uploaded >>

\* the caller after ConvertCur returned: log.Fatalln(err), or it prints and
\* returns; either way the process ends, and its goroutines with it
CallerExit ==
  /\ UNCHANGED auxVars
  /\ proc = "running" /\ mainPc = "returned"
  /\ proc' = "exited"
  /\ UNCHANGED << manifest, fileConcurrency, convVars, CurParqetFiles, run,
                  mainPc, ret, nrecv, recvLog, wkey, wpc, werr, limit,
                  mapWriters, raced, dest, tmp, countVars, histVars >>

\* the converter is invoked again after a successful run, with the same
\* manifest and settings: a new process, NewCurConvert
NewRun ==
  /\ UNCHANGED auxVars
  /\ proc = "exited" /\ ret = "ok" /\ run < MaxRuns
  /\ run' = run + 1
  /\ proc' = "running" /\ mainPc' = "new" /\ ret' = "none"
  /\ CurColumns' = << >> /\ CurFiles' = << >> /\ skipCols' = {}
  /\ CurParqetFiles' = {}
  /\ nrecv' = 0 /\ recvLog' = << >>
  /\ wkey' = << >> /\ wpc' = << >> /\ werr' = << >> /\ limit' = 0
  /\ mapWriters' = {} /\ raced' = {}
  /\ nDownload' = << >> /\ nParquet' = << >> /\ nUpload' = << >>
  /\ uploaded' = {} /\ deleted' = {}
  /\ UNCHANGED << manifest, fileConcurrency, dest, tmp, destAfter >>

Next ==
  \/ \E n \in ConcInputs : SetFileConcurrency(n)
  \/ ConvertCurStart
  \/ \E w \in Workers : Acquire(w)
  \/ \E w \in Workers : Download(w)
  \/ \E w \in Workers : ParquetCur(w)
  \/ \E w \in Workers : Upload(w)
  \/ \E w \in Workers : MapAssignBegin(w)
  \/ \E w \in Workers : MapAssignEnd(w)
  \/ \E w \in Workers : Remove(w)
  \/ \E w \in Workers : Release(w)
  \/ \E w \in Workers : Receive(w)
  \/ CleanCur
  \/ CallerExit

\* one invocation of the converter
Spec == Init /\ [][Next]_vars

\* the goroutines and ConvertCur itself keep running while they can
Fairness ==
  /\ \A w \in 1..MaxShards :
       WF_vars(w \in Workers /\
               (Acquire(w) \/ Download(w) \/ ParquetCur(w) \/ Upload(w) \/
                MapAssignBegin(w) \/ MapAssignEnd(w) \/ Remove(w) \/
                Release(w) \/ Receive(w)))
  /\ WF_vars(ConvertCurStart \/ CleanCur)
FairSpec == Spec /\ Fairness

\* invocations in a row over a prefix that holds many stale objects
InitGC ==
  /\ manifest \in Manifests({PipelineColumns}, ShardLists(MaxShards))
  /\ dest \in PreExistingMany
  /\ FreshConverter
  /\ NoRunYet
  /\ NoTranscode
  /\ NoQuery /\ qPagesIn = << >>
  /\ NoResolve
  /\ NoAggregate
  /\ NoSubstitute
  /\ NoCostByTag
  /\ NoPool
NextGC == Next \/ NewRun
SpecGC == InitGC /\ [][NextGC]_vars

\* ParseCur alone, over the manifests of the column pool
InitParse ==
  /\ manifest \in Manifests(SeqsUpTo(ColumnPool, MaxCols), ShardLists(1))
  /\ dest = {}
  /\ FreshConverter
  /\ NoRunYet
  /\ NoTranscode
  /\ NoQuery /\ qPagesIn = << >>
  /\ NoResolve
  /\ NoAggregate
  /\ NoSubstitute
  /\ NoCostByTag
  /\ NoPool
NextParse == ParseCurCall
SpecParse == InitParse /\ [][NextParse]_vars

\* ParseCur called once more on the converter, the manifest unchanged: the
\* type assertions that held in the first call hold again
ParseCurAgain ==
  /\ UNCHANGED auxVars
  /\ proc = "running" /\ mainPc = "parsed" /\ ret = "nil"
  /\ mainPc' = "reparsed"
  /\ \/ \* the manifest cannot be downloaded
        /\ ret' = "ErrParse"
        /\ UNCHANGED convVars
     \/ /\ LET st == ParseCurColumns(manifest, CurColumns) IN
             /\ CurColumns' = st.out
             /\ skipCols' = st.skip
        /\ CurFiles' = ParseCurFiles(manifest, CurFiles)
        /\ ret' = "nil"
  /\ UNCHANGED << manifest, fileConcurrency, CurParqetFiles, proc, run, nrecv,
                  recvLog, wkey, wpc, werr, limit, mapWriters, raced, dest,
                  tmp, countVars, histVars >>

\* two calls of ParseCur in a row, over manifests built from the two
\* colliding columns of the pipeline manifest
InitReparse ==
  /\ manifest \in Manifests(SeqsUpTo({PipelineColumns[i] :
                                        i \in DOMAIN PipelineColumns}, MaxCols),
                             ShardLists(MaxShards))
  /\ dest = {}
  /\ FreshConverter
  /\ NoRunYet
  /\ NoTranscode
  /\ NoQuery /\ qPagesIn = << >>
  /\ NoResolve
  /\ NoAggregate
  /\ NoSubstitute
  /\ NoCostByTag
  /\ NoPool
NextReparse ==
  \/ ParseCurCall
  \/ ParseCurAgain
SpecReparse == InitReparse /\ [][NextReparse]_vars

(* ------------------- ParquetCur, record by record ---------------------- *)
\* most data records a shard holds
MaxRecs == 2
\* the writer is flushed when the loop counter reaches a multiple of this
FlushEvery == 5000

\* the field a record of the pool holds at each position
FieldPool == <<"x", "y", "z">>
FieldAt(i) == FieldPool[((i - 1) % Len(FieldPool)) + 1]

\* the CSV records with n fields, and a record csv.Reader cannot parse
CsvRecs(n) ==
  { [ok |-> TRUE, fields |-> [i \in 1..n |-> FieldAt(i)]],
    [ok |-> TRUE, fields |-> [i \in 1..n |-> FieldAt(n + 1 - i)]] }
Malformed == [ok |-> FALSE, fields |-> << >>]

\* what a downloaded shard may hold: something that is not gzip data, gzip
\* data without a header record, or a header and records: the records
\* listed in recs, and after them more records, all of them the record like;
\* faults tells whether the writes and flushes of its parquet file can fail
Content(gzip, header, recs, more, like, faults) ==
  [gzip |-> gzip, header |-> header, recs |-> recs, more |-> more,
   like |-> like, faults |-> faults]
Sound(n) == [ok |-> TRUE, fields |-> [i \in 1..n |-> FieldAt(i)]]
NotGzip == Content(FALSE, FALSE, << >>, 0, Malformed, TRUE)
NoHeader == Content(TRUE, FALSE, << >>, 0, Malformed, TRUE)
ShardContents(n) ==
  {NotGzip, NoHeader}
    \cup { Content(TRUE, TRUE, r, 0, Malformed, TRUE) :
             r \in SeqsUpTo(CsvRecs(n) \cup {Malformed}, MaxRecs) }
Healthy(n) == Content(TRUE, TRUE, << Sound(n) >>, 0, Malformed, TRUE)
\* a shard of m sound records whose parquet file is written without fault
LongShard(n, m) == Content(TRUE, TRUE, << >>, m, Sound(n), FALSE)
\* the records of a shard
NumRecs(d) == Len(d.recs) + d.more
RecAt(d, pos) == IF pos <= Len(d.recs) THEN d.recs[pos] ELSE d.like
\* the outcomes of a write or a flush
Outcomes(d) == IF d.faults THEN BOOLEAN ELSE {TRUE}

\* the manifests' column lists the transcoder is followed with
ThreeColumns == << [category |-> <<"a">>, name |-> <<"B">>],
                   [category |-> <<"a">>, name |-> <<"b">>],
                   [category |-> <<"a">>, name |-> <<"b"," ","c">>] >>
TranscodeColumns == {PipelineColumns, ThreeColumns}

\* a row builder that writes every field
RecParquetAll(rec, skip) == rec

\* recParquet: the fields of rec whose 0-based position is not in skipCols
RecParquet(rec, skip) ==
  LET F[k \in 0..Len(rec)] ==
        IF k = 0 THEN << >>
        ELSE IF (k - 1) \in skip THEN F[k - 1] ELSE Append(F[k - 1], rec[k])
  IN F[Len(rec)]

\* ParquetCur before its first statement
PqIdle == [pc |-> "idle", pos |-> 1, i |-> 1, rows |-> << >>, written |-> 0,
           buffered |-> 0, flushed |-> 0, fault |-> FALSE]

\* ph.Flush(true), whose outcome the caller does not look at
Flush(st, ok) ==
  IF ok THEN [st EXCEPT !.flushed = @ + st.buffered, !.buffered = 0]
  ELSE [st EXCEPT !.buffered = 0, !.fault = TRUE]

\* ParquetCur up to its loop: os.Open, gzip.NewReader, the header record,
\* the parquet file and its writer
PqOpen(w) ==
  LET inputFile == LocalFile(wkey[w])
      d == shardData[wkey[w]]
  IN
  /\ proc = "running" /\ wpc[w] = "parquet" /\ pq[w].pc = "idle"
  /\ \/ \* os.Open fails: the file is gone
        /\ inputFile \notin tmp
        /\ pq' = [pq EXCEPT ![w].pc = "returned"]
        /\ wpc' = [wpc EXCEPT ![w] = "send"]
        /\ werr' = [werr EXCEPT ![w] = "ErrConvert"]
        /\ UNCHANGED << proc, tmp >>
     \/ \* gzip.NewReader or the header read fails: log.Fatal
        /\ inputFile \in tmp
        /\ ~d.gzip \/ ~d.header
        /\ pq' = [pq EXCEPT ![w].pc = "fatal"]
        /\ proc' = "exited"
        /\ UNCHANGED << wpc, werr, tmp >>
     \/ \* NewCSVWriter fails
        /\ inputFile \in tmp
        /\ d.gzip /\ d.header
        /\ tmp' = tmp \cup {LocalParquetFile(inputFile)}
        /\ pq' = [pq EXCEPT ![w].pc = "returned"]
        /\ wpc' = [wpc EXCEPT ![w] = "send"]
        /\ werr' = [werr EXCEPT ![w] = "ErrConvert"]
        /\ UNCHANGED proc
     \/ /\ inputFile \in tmp
        /\ d.gzip /\ d.header
        /\ tmp' = tmp \cup {LocalParquetFile(inputFile)}
        /\ pq' = [pq EXCEPT ![w].pc = "loop"]
        /\ UNCHANGED << proc, wpc, werr >>
  /\ UNCHANGED << manifest, fileConcurrency, convVars, CurParqetFiles, run,
                  mainPc, ret, nrecv, recvLog, wkey, limit, mapWriters, raced,
                  dest, countVars, histVars, shardData, farVars >>

\* one turn of ParquetCur's loop: the flush that is due, cr.Read, and the
\* row handed to ph.WriteString (rows keeps the rows of the listed records)
PqRecord(w) ==
  LET d == shardData[wkey[w]]
      outcomes == Outcomes(shardData[wkey[w]])
      due == pq[w].i % FlushEvery = 0
  IN
  /\ proc = "running" /\ wpc[w] = "parquet" /\ pq[w].pc = "loop"
  /\ \E fok \in (IF due THEN outcomes ELSE {TRUE}) :
       LET st == IF due THEN [Flush(pq[w], fok) EXCEPT !.i = 1] ELSE pq[w] IN
       \/ \* io.EOF
          /\ st.pos > NumRecs(d)
          /\ pq' = [pq EXCEPT ![w] = [st EXCEPT !.pc = "finish"]]
          /\ UNCHANGED << wpc, werr >>
       \/ \* the record cannot be parsed: return "", err
          /\ st.pos <= NumRecs(d) /\ ~RecAt(d, st.pos).ok
          /\ pq' = [pq EXCEPT ![w] = [st EXCEPT !.pc = "returned"]]
          /\ wpc' = [wpc EXCEPT ![w] = "send"]
          /\ werr' = [werr EXCEPT ![w] = "ErrConvert"]
       \/ \* the row is written, or the write fails and nobody looks
          /\ st.pos <= NumRecs(d) /\ RecAt(d, st.pos).ok
          /\ \E wok \in outcomes :
               LET row == RecParquet(RecAt(d, st.pos).fields, skipCols) IN
               pq' = [pq EXCEPT ![w] =
                        [st EXCEPT !.pos = @ + 1, !.i = @ + 1,
                                   !.rows = IF wok /\ st.pos <= Len(d.recs)
                                            THEN Append(@, [src |-> st.pos,
                                                            fields |-> row])
                                            ELSE @,
                                   !.written = IF wok THEN @ + 1 ELSE @,
                                   !.buffered = IF wok THEN @ + 1 ELSE @,
                                   !.fault = @ \/ ~wok]]
          /\ UNCHANGED << wpc, werr >>
  /\ UNCHANGED << manifest, fileConcurrency, convVars, CurParqetFiles, proc,
                  run, mainPc, ret, nrecv, recvLog, wkey, limit, mapWriters,
                  raced, dest, tmp, countVars, histVars, shardData, farVars >>

\* after the loop: the last flush, WriteStop, Close, return the file name
PqFinish(w) ==
  /\ proc = "running" /\ wpc[w] = "parquet" /\ pq[w].pc = "finish"
  /\ \E fok \in Outcomes(shardData[wkey[w]]) :
       LET st == IF pq[w].i > 1 THEN Flush(pq[w], fok)
                 ELSE [pq[w] EXCEPT !.fault = @ \/ ~fok]
       IN pq' = [pq EXCEPT ![w] = [st EXCEPT !.pc = "returned"]]
  /\ wpc' = [wpc EXCEPT ![w] = "upload"]
  /\ nParquet' = [nParquet EXCEPT ![w] = @ + 1]
  /\ UNCHANGED << manifest, fileConcurrency, convVars, CurParqetFiles, proc,
                  run, mainPc, ret, nrecv, recvLog, wkey, werr, limit,
                  mapWriters, raced, dest, tmp, nDownload, nUpload, histVars,
                  shardData, farVars >>

\* a conversion run whose ParquetCur calls are followed record by record:
\* the first shard holds any content, a second one is sound
InitTranscode ==
  /\ manifest \in [columns : TranscodeColumns,
                   reportKeys : { <<ShardSeq[1]>>, <<ShardSeq[1], ShardSeq[3]>> },
                   keys : {ManifestKeys}]
  /\ shardData \in
       { [k \in {manifest.reportKeys[i] : i \in DOMAIN manifest.reportKeys} |->
            IF k = ShardSeq[1] THEN c ELSE Healthy(Len(manifest.columns))] :
         c \in ShardContents(Len(manifest.columns)) }
  /\ pq = [w \in DOMAIN manifest.reportKeys |-> PqIdle]
  /\ dest = {}
  /\ FreshConverter
  /\ NoRunYet
  /\ NoQuery /\ qPagesIn = << >>
  /\ NoResolve
  /\ NoAggregate
  /\ NoSubstitute
  /\ NoCostByTag
  /\ NoPool
NextTranscode ==
  \/ ConvertCurStart
  \/ \E w \in Workers : Acquire(w)
  \/ \E w \in Workers : Download(w)
  \/ \E w \in Workers : PqOpen(w)
  \/ \E w \in Workers : PqRecord(w)
  \/ \E w \in Workers : PqFinish(w)
  \/ \E w \in Workers : Upload(w)
  \/ \E w \in Workers : MapAssignBegin(w)
  \/ \E w \in Workers : MapAssignEnd(w)
  \/ \E w \in Workers : Remove(w)
  \/ \E w \in Workers : Release(w)
  \/ \E w \in Workers : Receive(w)
  \/ CleanCur
  \/ CallerExit
SpecTranscode == InitTranscode /\ [][NextTranscode]_vars

\* how many records more than one flush interval the longest shard holds
FlushSlack == 1

\* a conversion run of one shard that is long enough for the flush in the
\* loop, or of a shard without records
InitFlush ==
  /\ manifest = [columns |-> PipelineColumns, reportKeys |-> << ShardSeq[1] >>,
                 keys |-> ManifestKeys]
  /\ shardData \in
       { [k \in {ShardSeq[1]} |-> LongShard(Len(PipelineColumns), m)] :
         m \in {0} \cup ((FlushEvery - 1)..(FlushEvery - 1 + FlushSlack)) }
  /\ pq = [w \in DOMAIN manifest.reportKeys |-> PqIdle]
  /\ dest = {}
  /\ FreshConverter
  /\ NoRunYet
  /\ NoQuery /\ qPagesIn = << >>
  /\ NoResolve
  /\ NoAggregate
  /\ NoSubstitute
  /\ NoCostByTag
  /\ NoPool
SpecFlush == InitFlush /\ [][NextTranscode]_vars

(* ------------------- the cost front-end: sendQuery --------------------- *)
\* most status polls of one query, most data rows and pages of its result
MaxPolls == 3
MaxRows == 2
MaxPages == 2

\* a cell of a result row: VarCharValue is nil or points to a string
Cell(s) == [nil |-> FALSE, v |-> s]
NullCell == [nil |-> TRUE, v |-> ""]

\* the result sets of the engine: a header row and data rows of its width
HeaderRow == << Cell("k"), Cell("c") >>
DataRows == [1..Len(HeaderRow) -> {Cell("a"), Cell("b"), NullCell}]
ResultSets == { <<HeaderRow>> \o d : d \in SeqsUpTo(DataRows, MaxRows) }

\* the ways the engine cuts a result set into at most p pages
RECURSIVE Pagings(_, _)
Pagings(all, p) ==
  IF all = << >> THEN { << >> }
  ELSE IF p = 0 THEN {}
  ELSE UNION { { << SubSeq(all, 1, c) >> \o rest :
                   rest \in Pagings(SubSeq(all, c + 1, Len(all)), p - 1) } :
               c \in 1..Len(all) }

\* the reasons the engine gives with the states FAILED and CANCELLED
Reasons == {"r1", "r2"}

\* a loop test that leaves the poll loop after the first answer
BreakPollAlways(state) == TRUE

\* if *qrop.QueryExecution.Status.State != "RUNNING" { break }
BreakPoll(state) == state # "RUNNING"

\* colNames forgotten between two pages
ColNamesPerPage(names) == << >>

\* colNames is declared outside the page callback: a page starts with the
\* names the pages before it left
ColNamesAtPage(names) == names

\* the map a data row is decoded into: colNames[j] -> *Data[j].VarCharValue
\* for every j below len(colNames), a later j over-writing an earlier one
DecodeRow(row, names) ==
  LET n == Min(Len(row), Len(names)) IN
  [c \in {names[j] : j \in 1..n} |->
     row[CHOOSE j \in 1..n :
           names[j] = c /\ \A l \in (j + 1)..n : names[l] # c].v]

\* skip: a field below len(colNames) has no value
SkipRow(row, names) ==
  \E j \in 1..Min(Len(row), Len(names)) : row[j].nil

\* the callback's body for one row; st is [names, rows]
RowStep(st, row) ==
  IF Len(st.names) < 1
  THEN [st EXCEPT !.names = [j \in 1..Len(row) |-> row[j].v]]
  ELSE IF Min(Len(row), Len(st.names)) > 0 /\ ~SkipRow(row, st.names)
       THEN [st EXCEPT !.rows = Append(@, DecodeRow(row, st.names))]
       ELSE st

\* the callback over the rows of one page
PageStep(st, page) ==
  LET F[k \in 0..Len(page)] ==
        IF k = 0 THEN st ELSE RowStep(F[k - 1], page[k])
  IN F[Len(page)]

\* svc.StartQueryExecution
StartQueryExecution ==
  /\ qPc = "start"
  /\ \/ /\ qPc' = "done"
        /\ qRet' = Returned("StartQueryExecution", "", "")
        /\ UNCHANGED qEngine
     \/ /\ qPc' = "poll"
        /\ qEngine' = [state |-> "QUEUED", reason |-> NoReason]
        /\ UNCHANGED qRet
  /\ UNCHANGED << qSeen, qrop, qPagesIn, qNext, colNames, results >>
  /\ UNCHANGED << pipeVars, tcVars, rsVars, costVars >>

\* the engine moves the execution on while sendQuery polls
EngineStep ==
  /\ qPc = "poll"
  /\ \/ /\ qEngine.state = "QUEUED"
        /\ qEngine' = [state |-> "RUNNING", reason |-> NoReason]
     \/ /\ qEngine.state = "RUNNING"
        /\ qEngine' = [state |-> "SUCCEEDED", reason |-> NoReason]
     \/ /\ qEngine.state \in {"QUEUED", "RUNNING"}
        /\ \E s \in {"FAILED", "CANCELLED"}, r \in Reasons :
             qEngine' = [state |-> s, reason |-> r]
  /\ UNCHANGED << qPc, qSeen, qrop, qPagesIn, qNext, colNames, results, qRet >>
  /\ UNCHANGED << pipeVars, tcVars, rsVars, costVars >>

\* one turn of the poll loop, svc.GetQueryExecution, and after the loop the
\* test of the state that ended it
GetQueryExecution ==
  /\ qPc = "poll" /\ Len(qSeen) < MaxPolls
  /\ \/ /\ qPc' = "done"
        /\ qRet' = Returned("GetQueryExecution", "", "")
        /\ UNCHANGED << qSeen, qrop >>
     \/ /\ qrop' = qEngine
        /\ qSeen' = Append(qSeen, qEngine.state)
        /\ IF ~BreakPoll(qEngine.state)
           THEN \* time.Sleep, then the next turn
                UNCHANGED << qPc, qRet >>
           ELSE IF qEngine.state = "SUCCEEDED"
           THEN qPc' = "pages" /\ UNCHANGED qRet
           ELSE IF qEngine.reason = NoReason
           THEN \* *StateChangeReason with StateChangeReason nil
                qPc' = "panicked" /\ UNCHANGED qRet
           ELSE /\ qPc' = "done"
                /\ qRet' = Returned("QueryState", qEngine.state, qEngine.reason)
  /\ UNCHANGED << qEngine, qPagesIn, qNext, colNames, results >>
  /\ UNCHANGED << pipeVars, tcVars, rsVars, costVars >>

\* svc.GetQueryResultsPages: the next page is handed to the callback, or the
\* call fails
GetQueryResultsPage ==
  /\ qPc = "pages"
  /\ \/ /\ qPc' = "done"
        /\ qRet' = Returned("GetQueryResultsPages", "", "")
        /\ UNCHANGED << qNext, colNames, results >>
     \/ /\ qNext <= Len(qPagesIn)
        /\ LET st == PageStep([names |-> ColNamesAtPage(colNames),
                               rows |-> results], qPagesIn[qNext])
           IN /\ colNames' = st.names
              /\ results' = st.rows
        /\ qNext' = qNext + 1
        /\ IF qNext = Len(qPagesIn)
           THEN qPc' = "done" /\ qRet' = Returned("nil", "", "")
           ELSE UNCHANGED << qPc, qRet >>
  /\ UNCHANGED << qEngine, qSeen, qrop, qPagesIn >>
  /\ UNCHANGED << pipeVars, tcVars, rsVars, costVars >>

\* one call of sendQuery against an engine whose result is any result set of
\* the pool in any paging
InitQuery ==
  /\ qPagesIn \in UNION { Pagings(all, MaxPages) : all \in ResultSets }
  /\ NoQuery
  /\ manifest = [columns |-> PipelineColumns, reportKeys |-> << >>,
                 keys |-> ManifestKeys]
  /\ dest = {}
  /\ FreshConverter
  /\ NoRunYet
  /\ NoTranscode
  /\ NoResolve
  /\ NoAggregate
  /\ NoSubstitute
  /\ NoCostByTag
  /\ NoPool
NextQuery ==
  \/ StartQueryExecution
  \/ EngineStep
  \/ GetQueryExecution
  \/ GetQueryResultsPage
SpecQuery == InitQuery /\ [][NextQuery]_vars

\* sendQuery is running code: a call that can be made is made; the engine
\* owes nothing
FairSpecQuery ==
  /\ SpecQuery
  /\ WF_vars(StartQueryExecution)
  /\ WF_vars(GetQueryExecution)
  /\ WF_vars(GetQueryResultsPage)

(* ------------------ the metric front-end: sendQuery -------------------- *)
\* the page callback's body for one row; st is [i, names, rows, panicked].
\* i and colNames are the callback's own variables; a cell without a value
\* and a cell beyond the names are a nil dereference and an index out of
\* range
MetricRowStep(st, row) ==
  IF st.panicked THEN st
  ELSE IF \E j \in DOMAIN row : row[j].nil
  THEN [st EXCEPT !.panicked = TRUE]
  ELSE IF st.i < 1
  THEN [st EXCEPT !.names = @ \o [j \in 1..Len(row) |-> row[j].v],
                  !.i = @ + 1]
  ELSE IF Len(row) > Len(st.names)
  THEN [st EXCEPT !.panicked = TRUE]
  ELSE [st EXCEPT !.rows = Append(@, DecodeRow(row, st.names)),
                  !.i = @ + 1]

\* the callback over the rows of one page: i := 0 and var colNames []string
\* are inside the callback
MetricPageStep(rows0, page) ==
  LET F[k \in 0..Len(page)] ==
        IF k = 0
        THEN [i |-> 0, names |-> << >>, rows |-> rows0, panicked |-> FALSE]
        ELSE MetricRowStep(F[k - 1], page[k])
  IN F[Len(page)]

\* one turn of the poll loop, and after the loop the test of the state that
\* ended it; the error carries the state only
MetricGetQueryExecution ==
  /\ qPc = "poll" /\ Len(qSeen) < MaxPolls
  /\ \/ /\ qPc' = "done"
        /\ qRet' = Returned("GetQueryExecution", "", "")
        /\ UNCHANGED << qSeen, qrop >>
     \/ /\ qrop' = qEngine
        /\ qSeen' = Append(qSeen, qEngine.state)
        /\ IF ~BreakPoll(qEngine.state)
           THEN UNCHANGED << qPc, qRet >>
           ELSE IF qEngine.state = "SUCCEEDED"
           THEN qPc' = "pages" /\ UNCHANGED qRet
           ELSE /\ qPc' = "done"
                /\ qRet' = Returned("QueryState", qEngine.state, "")
  /\ UNCHANGED << qEngine, qPagesIn, qNext, colNames, results >>
  /\ UNCHANGED << pipeVars, tcVars, rsVars, costVars >>

\* svc.GetQueryResultsPages: the next page is handed to the callback, or the
\* call fails
MetricGetQueryResultsPage ==
  /\ qPc = "pages"
  /\ \/ /\ qPc' = "done"
        /\ qRet' = Returned("GetQueryResultsPages", "", "")
        /\ UNCHANGED << qNext, results >>
     \/ /\ qNext <= Len(qPagesIn)
        /\ LET st == MetricPageStep(results, qPagesIn[qNext])
           IN IF st.panicked
              THEN qPc' = "panicked" /\ UNCHANGED << qNext, results, qRet >>
              ELSE /\ results' = st.rows
                   /\ qNext' = qNext + 1
                   /\ IF qNext = Len(qPagesIn)
                      THEN qPc' = "done" /\ qRet' = Returned("nil", "", "")
                      ELSE UNCHANGED << qPc, qRet >>
  /\ UNCHANGED << qEngine, qSeen, qrop, qPagesIn, colNames >>
  /\ UNCHANGED << pipeVars, tcVars, rsVars, costVars >>

\* one call of the metric front-end's sendQuery: it starts the execution as
\* the cost front-end's does, against the same engine
NextMetricQuery ==
  \/ StartQueryExecution
  \/ EngineStep
  \/ MetricGetQueryExecution
  \/ MetricGetQueryResultsPage
SpecMetricQuery == InitQuery /\ [][NextMetricQuery]_vars

(* ----------------- the cost front-end: findTagMatch -------------------- *)
\* most rules of a tag axis
MaxRules == 2

\* a regular expression of a rule or of the blacklist: "sub" is a literal
\* (alone or followed by .*) and is searched anywhere in the value, "pre" is
\* ^literal, "bad" does not compile
Pat(kind, lit) == [kind |-> kind, lit |-> lit]

\* regexp.Compile succeeds
Compiles(p) == p.kind # "bad"

\* r.MatchString(value): an unanchored search
MatchString(p, value) ==
  LET n == Len(p.lit) IN
  IF p.kind = "pre"
  THEN n <= Len(value) /\ SubSeq(value, 1, n) = p.lit
  ELSE \E o \in 0..(Len(value) - n) : SubSeq(value, o + 1, o + n) = p.lit

\* findExact
findExact(value, list) ==
  LET F[k \in 0..Len(list)] ==
        IF k = 0 THEN FALSE ELSE F[k - 1] \/ list[k] = value
  IN F[Len(list)]

\* findRegex: a pattern that does not compile is passed over
findRegex(value, list) ==
  LET F[k \in 0..Len(list)] ==
        IF k = 0 THEN FALSE
        ELSE F[k - 1] \/ (Compiles(list[k]) /\ MatchString(list[k], value))
  IN F[Len(list)]

\* one of findTagMatch's two loops over the rules from rule i on: the index
\* of the rule it returns with, 0 when it runs to its end
RECURSIVE RuleLoop(_, _, _, _)
RuleLoop(m, i, match, exact) ==
  IF i > Len(m) THEN 0
  ELSE IF (IF exact THEN findExact(match, m[i].match)
                    ELSE findRegex(match, m[i].regex))
       THEN i
       ELSE RuleLoop(m, i + 1, match, exact)

\* a single loop that tries a rule's match list and its regex list together
MatchedRuleOnePass(match, m) ==
  IF \E i \in DOMAIN m :
       findExact(match, m[i].match) \/ findRegex(match, m[i].regex)
  THEN CHOOSE i \in DOMAIN m :
         /\ findExact(match, m[i].match) \/ findRegex(match, m[i].regex)
         /\ \A j \in 1..(i - 1) :
              ~(findExact(match, m[j].match) \/ findRegex(match, m[j].regex))
  ELSE 0

\* the rule findTagMatch returns with: the loop over the match lists, then
\* the loop over the regex lists
MatchedRule(match, m) ==
  LET e == RuleLoop(m, 1, match, TRUE) IN
  IF e > 0 THEN e ELSE RuleLoop(m, 1, match, FALSE)

\* no blacklist at all
BlacklistNone(blacklist, tag) == << >>

\* tagblacklist, ok := blacklist[tag]
BlacklistOf(blacklist, tag) ==
  IF tag \in DOMAIN blacklist THEN blacklist[tag] ELSE << >>

Resolved(label) == [done |-> TRUE, match |-> label, err |-> FALSE]
NoMatch == [done |-> TRUE, match |-> << >>, err |-> TRUE]

\* as findTagMatch, were an empty value passed through like any other
findTagMatchKeepEmpty(match, m, tag, blacklist) ==
  LET r == MatchedRule(match, m) IN
  IF r > 0 THEN Resolved(m[r].value)
  ELSE IF findRegex(match, BlacklistOf(blacklist, tag)) THEN NoMatch
  ELSE Resolved(match)

findTagMatch(match, m, tag, blacklist) ==
  LET r == MatchedRule(match, m) IN
  IF r > 0 THEN Resolved(m[r].value)
  ELSE IF findRegex(match, BlacklistOf(blacklist, tag)) THEN NoMatch
  ELSE IF Len(match) > 0 THEN Resolved(match)
  ELSE NoMatch

\* the cell values, rules, candidate columns and blacklists findTagMatch is
\* called with
CellValues == { << >>, <<"a","b">>, <<"a","b","c">>, <<"x","a","b">>,
                <<"z","z">> }
RulePool ==
  { [value |-> <<"P">>, match |-> << >>, regex |-> << Pat("sub", <<"a","b">>) >>],
    [value |-> <<"Q">>, match |-> << <<"a","b","c">> >>, regex |-> << >>],
    [value |-> <<"R">>, match |-> << <<"x">>, <<"a","b">> >>,
     regex |-> << Pat("pre", <<"x">>) >>],
    [value |-> <<"S">>, match |-> << >>,
     regex |-> << Pat("bad", <<"(">>), Pat("pre", <<"a","b">>) >>],
    [value |-> <<"T">>, match |-> << >>, regex |-> << Pat("bad", <<"(">>) >>] }
Tags == {"t1", "t2"}
Blacklists ==
  { << >>,
    [t \in {"t1"} |-> << Pat("sub", <<"z">>) >>],
    [t \in {"t2"} |-> << Pat("sub", <<"z">>) >>],
    [t \in {"t1"} |-> << Pat("bad", <<"(">>), Pat("pre", <<"x">>) >>],
    [t \in Tags |-> IF t = "t1" THEN << Pat("sub", << >>) >>
                    ELSE << Pat("pre", <<"a">>) >>] }

FindTagMatchCall ==
  /\ ~rsOut.done
  /\ rsOut' = findTagMatch(rsIn.match, rsIn.m, rsIn.tag, rsIn.blacklist)
  /\ UNCHANGED rsIn
  /\ UNCHANGED << pipeVars, tcVars, qVars, costVars >>

InitResolve ==
  /\ rsIn \in [match : CellValues, m : SeqsUpTo(RulePool, MaxRules),
               tag : Tags, blacklist : Blacklists]
  /\ rsOut = NotResolved
  /\ NoAggregate
  /\ NoSubstitute
  /\ NoCostByTag
  /\ NoPool
  /\ NoQuery /\ qPagesIn = << >>
  /\ manifest = [columns |-> PipelineColumns, reportKeys |-> << >>,
                 keys |-> ManifestKeys]
  /\ dest = {}
  /\ FreshConverter
  /\ NoRunYet
  /\ NoTranscode
NextResolve == FindTagMatchCall
SpecResolve == InitResolve /\ [][NextResolve]_vars

(* --------- the cost front-end: processResults and printResults --------- *)
\* most tag axes of a configuration
MaxAxes == 2
\* most rows of a query result whose amounts are followed
MaxCostRows == 3
\* how many runs over the same rows and configuration are followed
MaxReports == 2
\* significant bits of an amount: sums beyond them are rounded to even, as
\* float64 does beyond its 53
MantissaBits == 4

\* the characters of keys and report lines in byte order
Ascii == << "\"", ",", "-", ".", "0", "1", "2", "3", "4", "5", "6", "7", "8",
            "9", ":", "D", "P", "T", "U", "a", "b", "d", "e", "g", "i", "l",
            "m", "n", "o", "s", "t", "u", "v", "w", "x", "z" >>
CharOrd(c) == CHOOSE i \in DOMAIN Ascii : Ascii[i] = c

\* a < b for Go strings: byte-wise, a proper prefix first
StrLess(a, b) ==
  \E i \in 1..(Len(b)) :
    /\ i <= Len(a) + 1
    /\ \A j \in 1..(i - 1) : a[j] = b[j]
    /\ \/ i = Len(a) + 1
       \/ CharOrd(a[i]) < CharOrd(b[i])

\* sort.Strings left out: the keys stay in the order the map gave them
SortStringsNot(keys) == keys

\* sort.Strings(keys)
SortStrings(keys) ==
  LET Insert(s, k) ==
        LET n == Cardinality({i \in DOMAIN s : ~StrLess(k, s[i])}) IN
        SubSeq(s, 1, n) \o << k >> \o SubSeq(s, n + 1, Len(s))
      F[i \in 0..Len(keys)] ==
        IF i = 0 THEN << >> ELSE Insert(F[i - 1], keys[i])
  IN F[Len(keys)]

\* strings.Join(tags, sep)
Join(tags, sep) ==
  LET F[i \in 0..Len(tags)] ==
        IF i = 0 THEN << >>
        ELSE IF i = 1 THEN tags[1]
        ELSE F[i - 1] \o sep \o tags[i]
  IN F[Len(tags)]

DigitChars == << "0", "1", "2", "3", "4", "5", "6", "7", "8", "9" >>
DigitVal(c) == (CHOOSE i \in DOMAIN DigitChars : DigitChars[i] = c) - 1
IsDigits(s) == \A i \in DOMAIN s : s[i] \in Digits

RECURSIVE Atoi(_)
Atoi(s) ==
  IF s = << >> THEN 0
  ELSE 10 * Atoi(SubSeq(s, 1, Len(s) - 1)) + DigitVal(s[Len(s)])

RECURSIVE Itoa(_)
Itoa(n) ==
  IF n < 10 THEN << DigitChars[n + 1] >>
  ELSE Itoa(n \div 10) \o << DigitChars[(n % 10) + 1] >>

Abs(x) == IF x < 0 THEN 0 - x ELSE x
Sgn(x) == IF x < 0 THEN 0 - 1 ELSE 1

\* the spacing of the amounts around a magnitude x
RECURSIVE Ulp(_, _)
Ulp(x, u) == IF x < u * 2^MantissaBits THEN u ELSE Ulp(x, 2 * u)

\* the amount nearest to x, ties to the even mantissa.  An amount is held in
\* thousandths of the currency unit.
Float(x) ==
  LET u == Ulp(Abs(x), 1)
      q == Abs(x) \div u
      m == Abs(x) % u
      up == 2 * m > u \/ (2 * m = u /\ q % 2 = 1)
  IN Sgn(x) * u * (IF up THEN q + 1 ELSE q)

\* a + b on float64
FAdd(a, b) == Float(a + b)

\* strconv.ParseFloat(s, 64) for the decimal forms [-]ddd[.ddd] with at most
\* three decimals; any other text is an error
ParseFloat(s) ==
  LET neg == Len(s) > 0 /\ s[1] = "-"
      body == IF neg THEN Tail(s) ELSE s
      dots == {i \in DOMAIN body : body[i] = "."}
      dot == IF dots = {} THEN Len(body) + 1 ELSE CHOOSE i \in dots : TRUE
      ip == SubSeq(body, 1, dot - 1)
      fp == SubSeq(body, dot + 1, Len(body))
      ok == /\ Cardinality(dots) <= 1
            /\ IsDigits(ip) /\ IsDigits(fp)
            /\ Len(ip) + Len(fp) > 0 /\ Len(fp) <= 3
      pad == [i \in 1..3 |-> IF i <= Len(fp) THEN fp[i] ELSE "0"]
      mills == 1000 * Atoi(ip) + Atoi(pad)
  IN IF ok THEN [err |-> FALSE, f |-> Float(IF neg THEN 0 - mills ELSE mills)]
     ELSE [err |-> TRUE, f |-> 0]

\* math.Round(x/0.01): the hundredths nearest to x, halves away from zero
Cents(x) == Sgn(x) * ((Abs(x) + 5) \div 10)

\* fmt's %.2f of math.Round(x/0.01)*0.01
Fmt2(x) ==
  LET c == Abs(Cents(x))
      sign == IF Cents(x) < 0 THEN << "-" >> ELSE << >>
  IN sign \o Itoa(c \div 100) \o << "." >>
          \o << DigitChars[((c \div 10) % 10) + 1], DigitChars[(c % 10) + 1] >>

\* row[column]: the zero value when the row has no such column
RowGet(row, column) == IF column \in DOMAIN row THEN row[column] ELSE << >>

Untagged == << "U", "n", "t", "a", "g", "g", "e", "d" >>

\* the loop over tm.Tags from candidate i on: the first match returned
\* without error, "Untagged" when the loop runs to its end
RECURSIVE CandLoop(_, _, _, _)
CandLoop(row, tm, i, blacklist) ==
  IF i > Len(tm.tags) THEN Untagged
  ELSE LET res == findTagMatch(RowGet(row, tm.tags[i]), tm.map, tm.tags[i],
                               blacklist)
       IN IF ~res.err THEN res.match
          ELSE CandLoop(row, tm, i + 1, blacklist)

\* as AxisLabel, were only the first candidate column tried
AxisLabelFirstOnly(row, tm, blacklist) ==
  CandLoop(row, [tm EXCEPT !.tags = SubSeq(@, 1, 1)], 1, blacklist)

\* the body of for _, tm := range c.TagMap
AxisLabel(row, tm, blacklist) == CandLoop(row, tm, 1, blacklist)

\* tags := []string{row["service"]}, then one label per axis
RowTags(row, c) ==
  << RowGet(row, "service") >>
    \o [a \in 1..Len(c.TagMap) |-> AxisLabel(row, c.TagMap[a], c.TagBlacklist)]

\* as SkipsRow, were the error of ParseFloat ignored
SkipsRowNever(p) == FALSE

\* if err != nil { ...; continue }
SkipsRow(p) == p.err

\* m[key] for a map of float64: 0 for a key that is not there
MapGet(m, key) == IF key \in DOMAIN m THEN m[key] ELSE 0
MapPut(m, key, v) ==
  [k \in DOMAIN m \cup {key} |-> IF k = key THEN v ELSE m[k]]

\* one turn of the loop of processResults
ProcessRow ==
  /\ agPc = "aggregate"
  /\ rowAt <= Len(resp)
  /\ LET row == resp[rowAt]
         p == ParseFloat(RowGet(row, "cost"))
         tags == RowTags(row, conf)
         key == Join(tags, << "," >>)
         old == MapGet(aggr.tagCosts, key)
     IN IF SkipsRow(p)
        THEN /\ rowTags' = Append(rowTags, << >>)
             /\ UNCHANGED << aggr, slack >>
        ELSE /\ aggr' = [tagCosts |-> MapPut(aggr.tagCosts, key, FAdd(old, p.f)),
                         total |-> FAdd(aggr.total, p.f)]
             /\ rowTags' = Append(rowTags, tags)
             /\ slack' = slack + Abs(FAdd(old, p.f) - (old + p.f))
                               + Abs(FAdd(aggr.total, p.f) - (aggr.total + p.f))
  /\ rowAt' = rowAt + 1
  /\ UNCHANGED << resp, conf, agPc, out >>
  /\ UNCHANGED << pipeVars, tcVars, qVars, rsVars, agRest >>

\* as Printed, were an amount of one hundredth printed
PrintedFromOneCent(x) == Cents(x) >= 1

\* math.Round(r.tagCosts[k]/0.01)*0.01 > 0.01
Printed(x) == Cents(x) > 1

Quoted(s) == << "\"" >> \o s \o << "\"" >>
HeaderLine(c) ==
  Quoted(<< "s", "e", "r", "v", "i", "c", "e" >>) \o << "," >>
    \o Join([a \in 1..Len(c.TagMap) |-> Quoted(c.TagMap[a].name) \o << "," >>],
            << >>)
    \o Quoted(<< "a", "m", "o", "u", "n", "t" >>)
RowLine(k, x) == k \o << "," >> \o Fmt2(x)
RuleLine == [i \in 1..21 |-> "-"]
TotalLine(x) == << "T", "o", "t", "a", "l", ":", " " >> \o Fmt2(x)

\* the lines of printResults for the keys in the order the loop has them
RowLines(keys, tagCosts) ==
  LET F[i \in 0..Len(keys)] ==
        IF i = 0 THEN << >>
        ELSE IF Printed(tagCosts[keys[i]])
             THEN Append(F[i - 1], RowLine(keys[i], tagCosts[keys[i]]))
             ELSE F[i - 1]
  IN F[Len(keys)]

\* the orders for k := range r.tagCosts may take
Orders(S) ==
  {s \in [1..Cardinality(S) -> S] : \A k \in S : \E i \in DOMAIN s : s[i] = k}

\* printResults(processResults(tagCost, conf), conf)
PrintResults ==
  /\ agPc = "aggregate"
  /\ rowAt > Len(resp)
  /\ \E keys \in Orders(DOMAIN aggr.tagCosts) :
       out' = Append(out, << HeaderLine(conf) >>
                            \o RowLines(SortStrings(keys), aggr.tagCosts)
                            \o << RuleLine, TotalLine(aggr.total) >>)
  /\ agPc' = "done"
  /\ UNCHANGED << resp, conf, rowAt, aggr, rowTags, slack >>
  /\ UNCHANGED << pipeVars, tcVars, qVars, rsVars, agRest >>

\* the command is run once more over the same rows and configuration
RunAgain ==
  /\ agPc = "done"
  /\ Len(out) < MaxReports
  /\ agPc' = "aggregate" /\ rowAt' = 1 /\ aggr' = NewResults
  /\ rowTags' = << >> /\ slack' = 0
  /\ UNCHANGED << resp, conf, out >>
  /\ UNCHANGED << pipeVars, tcVars, qVars, rsVars, agRest >>

\* the tag axes of the configurations
AxisPool ==
  { [name |-> << "t", "e", "a", "m" >>, tags |-> << "t1", "t2" >>,
     map |-> << [value |-> << "P" >>, match |-> << >>,
                 regex |-> << Pat("sub", << "a", "b" >>) >>] >>],
    [name |-> << "e", "n", "v" >>, tags |-> << "t2" >>,
     map |-> << [value |-> << "D" >>, match |-> << >>,
                 regex |-> << Pat("sub", << >>) >>] >>],
    [name |-> << "o", "w", "n" >>, tags |-> << "t2", "t1" >>,
     map |-> << [value |-> Untagged, match |-> << << "z", "z" >> >>,
                 regex |-> << >>] >>],
    [name |-> << "t", "a", "g" >>, tags |-> << "t1" >>, map |-> << >>] }

OneCent == << "0", ".", "0", "1", "0" >>
LabelCells == { << >>, << "a", "b" >>, << "z", "z" >>, Untagged }
\* rows whose tag columns take every value; the second may be missing
LabelRows ==
  [service : {<< "s", "1" >>}, cost : {OneCent}, t1 : LabelCells, t2 : LabelCells]
    \cup [service : {<< "s", "1" >>}, cost : {OneCent}, t1 : LabelCells]

CostCells == { << "x" >>, << "0", ".", "0", "0", "4" >>,
               << "0", ".", "0", "1", "5" >>, << "-", "0", ".", "0", "1" >> }
\* rows of three groups: costs that parse or not, small, large and negative
CostRows ==
  [service : {<< "s", "1" >>}, t1 : {<< "a", "b" >>},
   cost : CostCells \ {<< "-", "0", ".", "0", "1" >>}]
    \cup [service : {<< "s", "1" >>}, t1 : {<< >>},
          cost : {<< "0", ".", "0", "0", "4" >>, << "0", ".", "0", "1", "5" >>}]
    \cup [service : {<< "s", "2" >>}, t1 : {<< "a", "b" >>},
          cost : {<< "0", ".", "0", "1", "5" >>, << "-", "0", ".", "0", "1" >>}]

\* the lists of up to n axes of the pool, no axis twice
AxisLists(n) ==
  {l \in SeqsUpTo(AxisPool, n) \ {<< >>} :
     \A i, j \in DOMAIN l : l[i] = l[j] => i = j}

InitCost ==
  /\ \/ /\ conf \in [TagMap : AxisLists(MaxAxes), TagBlacklist : Blacklists]
        /\ resp \in [1..1 -> LabelRows]
     \/ /\ conf = [TagMap |-> << CHOOSE tm \in AxisPool : tm.map = << >> >>,
                   TagBlacklist |-> << >>]
        /\ resp \in SeqsUpTo(CostRows, MaxCostRows)
  /\ agPc = "aggregate" /\ rowAt = 1 /\ aggr = NewResults
  /\ rowTags = << >> /\ slack = 0 /\ out = << >>
  /\ NoSubstitute
  /\ NoCostByTag
  /\ NoPool
  /\ NoQuery /\ qPagesIn = << >>
  /\ NoResolve
  /\ manifest = [columns |-> PipelineColumns, reportKeys |-> << >>,
                 keys |-> ManifestKeys]
  /\ dest = {}
  /\ FreshConverter
  /\ NoRunYet
  /\ NoTranscode
NextCost ==
  \/ ProcessRow
  \/ PrintResults
  \/ RunAgain
SpecCost == InitCost /\ [][NextCost]_vars

\* rows whose service and tag cells may hold a comma, under the axis
\* without rules, which passes the cell on as the label
CommaRows ==
  [service : {<< "a" >>, << "a", ",", "b" >>},
   t1 : {<< "b" >>, << "d" >>, << "b", ",", "d" >>},
   cost : {OneCent}]
InitCostComma ==
  /\ conf = [TagMap |-> << CHOOSE tm \in AxisPool : tm.map = << >> >>,
             TagBlacklist |-> << >>]
  /\ resp \in SeqsUpTo(CommaRows, MaxCostRows)
  /\ agPc = "aggregate" /\ rowAt = 1 /\ aggr = NewResults
  /\ rowTags = << >> /\ slack = 0 /\ out = << >>
  /\ NoSubstitute
  /\ NoCostByTag
  /\ NoPool
  /\ NoQuery /\ qPagesIn = << >>
  /\ NoResolve
  /\ manifest = [columns |-> PipelineColumns, reportKeys |-> << >>,
                 keys |-> ManifestKeys]
  /\ dest = {}
  /\ FreshConverter
  /\ NoRunYet
  /\ NoTranscode
SpecCostComma == InitCostComma /\ [][NextCost]_vars

(* ---------------- the cost front-end: substituteParams ----------------- *)
\* most segments of a query template
MaxSegs == 3

\* strings.Replace(s, old, new, n) for a non-empty old: the first n
\* occurrences that do not overlap, from the left; all of them when n < 0
RECURSIVE Replace(_, _, _, _)
Replace(s, old, new, n) ==
  IF n = 0 \/ Len(s) < Len(old) THEN s
  ELSE IF SubSeq(s, 1, Len(old)) = old
       THEN new \o Replace(SubSeq(s, Len(old) + 1, Len(s)), old, new,
                           IF n < 0 THEN n ELSE n - 1)
       ELSE << s[1] >> \o Replace(Tail(s), old, new, n)

\* as ReplaceEvery, were the count 1
ReplaceOnce(s, old, new) == Replace(s, old, new, 1)

\* strings.Replace(sql, sub, value, -1)
ReplaceEvery(s, old, new) == Replace(s, old, new, 0 - 1)

\* a token **X**
Token(x) == << "*", "*", x, "*", "*" >>
\* the tokens substituteParams is called with, and one it never is
ParamTokens == {Token("D"), Token("T")}
OtherToken == Token("X")
\* the segments a template is made of: text and tokens
Segments == {<< "a" >>, << "*" >>, << "." >>} \cup ParamTokens \cup {OtherToken}
\* the values of the parameters: none of them holds a token
ParamValues == {<< >>, << "v" >>, << "w", ".", "x" >>}
ParamMaps == UNION {[K -> ParamValues] : K \in SUBSET ParamTokens}

\* one turn of for sub, value := range params
SubstituteStep ==
  /\ ~spRet.done
  /\ \E sub \in spLeft :
       /\ sql' = ReplaceEvery(sql, sub, spIn.params[sub])
       /\ spLeft' = spLeft \ {sub}
  /\ UNCHANGED << spIn, spRet >>
  /\ UNCHANGED << pipeVars, tcVars, qVars, rsVars, spRest >>

\* return sql
SubstituteReturn ==
  /\ ~spRet.done
  /\ spLeft = {}
  /\ spRet' = [done |-> TRUE, sql |-> sql]
  /\ UNCHANGED << spIn, sql, spLeft >>
  /\ UNCHANGED << pipeVars, tcVars, qVars, rsVars, spRest >>

InitSubstitute ==
  /\ spIn \in [template : SeqsUpTo(Segments, MaxSegs), params : ParamMaps]
  /\ sql = Join(spIn.template, << >>)
  /\ spLeft = DOMAIN spIn.params
  /\ spRet = NotSubstituted
  /\ NoCostByTag
  /\ NoPool
  /\ NoAggregate
  /\ NoQuery /\ qPagesIn = << >>
  /\ NoResolve
  /\ manifest = [columns |-> PipelineColumns, reportKeys |-> << >>,
                 keys |-> ManifestKeys]
  /\ dest = {}
  /\ FreshConverter
  /\ NoRunYet
  /\ NoTranscode
NextSubstitute ==
  \/ SubstituteStep
  \/ SubstituteReturn
SpecSubstitute == InitSubstitute /\ [][NextSubstitute]_vars

\* calls whose parameter values may be tokens themselves: conf.Tags,
\* conf.Database and conf.Table are free text of the configuration
NestedValues == ParamValues \cup ParamTokens
InitSubstituteNested ==
  /\ spIn \in [template : SeqsUpTo(Segments, MaxSegs),
                params : UNION {[K -> NestedValues] : K \in SUBSET ParamTokens}]
  /\ sql = Join(spIn.template, << >>)
  /\ spLeft = DOMAIN spIn.params
  /\ spRet = NotSubstituted
  /\ NoCostByTag
  /\ NoPool
  /\ NoAggregate
  /\ NoQuery /\ qPagesIn = << >>
  /\ NoResolve
  /\ manifest = [columns |-> PipelineColumns, reportKeys |-> << >>,
                 keys |-> ManifestKeys]
  /\ dest = {}
  /\ FreshConverter
  /\ NoRunYet
  /\ NoTranscode
SpecSubstituteNested == InitSubstituteNested /\ [][NextSubstitute]_vars

(* --------- the cost front-end: costbytag and processRIUsage ------------ *)
\* most rows of the ricost result
MaxFeeRows == 2
\* most rows of the riusage result
MaxUsageRows == 2

\* an amount taken as the exact quotient num/den: the rounding of the
\* division and of the multiplication is left out
Rat(num, den) == [num |-> num, den |-> den]
RatAdd(a, b) == Rat(a.num * b.den + b.num * a.den, a.den * b.den)
RatEq(a, b) == a.num * b.den = b.num * a.den

\* strconv.FormatFloat(cost, 'E', -1, 64): the shortest text that parses
\* back to the same amount, here numerator/denominator
FormatFloat(x) == Itoa(x.num) \o << "/" >> \o Itoa(x.den)
\* the amount such a text stands for
ParseRat(s) ==
  LET bar == CHOOSE i \in DOMAIN s : s[i] = "/" IN
  Rat(Atoi(SubSeq(s, 1, bar - 1)), Atoi(SubSeq(s, bar + 1, Len(s))))

\* riCostPerService after the loop over riCost.Rows up to row n
RECURSIVE RiCostPerService(_, _)
RiCostPerService(rows, n) ==
  IF n = 0 THEN << >>
  ELSE LET m == RiCostPerService(rows, n - 1)
           p == ParseFloat(RowGet(rows[n], "cost"))
       IN IF p.err THEN m ELSE MapPut(m, RowGet(rows[n], "service"), p.f)

\* the usage of a riusage row that counts: normalized_amount if it parses
\* and is positive, else amount if it parses and is positive, else none (0)
UsageOf(row) ==
  LET pn == ParseFloat(RowGet(row, "normalized_amount"))
      pa == ParseFloat(RowGet(row, "amount"))
  IN IF ~pn.err /\ pn.f > 0 THEN pn.f
     ELSE IF ~pa.err /\ pa.f > 0 THEN pa.f
     ELSE 0

\* riUsagePerService after the loop over riUsage.Rows up to row n
RECURSIVE RiUsagePerService(_, _)
RiUsagePerService(rows, n) ==
  IF n = 0 THEN << >>
  ELSE LET m == RiUsagePerService(rows, n - 1)
           svc == RowGet(rows[n], "service")
       IN IF UsageOf(rows[n]) > 0
          THEN MapPut(m, svc, MapGet(m, svc) + UsageOf(rows[n]))
          ELSE m

\* row["cost"] = ... : a row with usage is given its share of the fee
WithCost(row, usage, fees) ==
  LET svc == RowGet(row, "service")
      cost == Rat(UsageOf(row) * MapGet(fees, svc), MapGet(usage, svc))
  IN IF UsageOf(row) > 0
     THEN [c \in DOMAIN row \cup {"cost"} |->
             IF c = "cost" THEN FormatFloat(cost) ELSE row[c]]
     ELSE row

\* the rows processRIUsage appends to tagCost.Rows
RiRows(riCost, riUsage) ==
  LET fees == RiCostPerService(riCost, Len(riCost))
      usage == RiUsagePerService(riUsage, Len(riUsage))
  IN [n \in DOMAIN riUsage |-> WithCost(riUsage[n], usage, fees)]

QueryNames == {"tagmap", "ricost", "riusage"}

\* as StageAfter, were processRIUsage to return after the ricost query
StageAfterFeesOnly(q, riUsage) ==
  IF q = "tagmap" /\ riUsage THEN "ricost" ELSE "report"

\* where the Action goes on when query q has returned without error
StageAfter(q, riUsage) ==
  IF q = "tagmap" THEN (IF riUsage THEN "ricost" ELSE "report")
  ELSE IF q = "ricost" THEN "riusage"
  ELSE "allocate"

\* sendQuery(...) is called with the sql of query q
SendQuery(q) ==
  /\ cbPc = q /\ inFlight = {}
  /\ inFlight' = inFlight \cup {q}
  /\ queries' = Append(queries, q)
  /\ UNCHANGED << cbIn, cbPc, tagCost >>
  /\ UNCHANGED << pipeVars, tcVars, qVars, rsVars, cbRest >>

\* sendQuery returns: with an error the Action returns it
QueryReturns(q) ==
  /\ q \in inFlight
  /\ inFlight' = inFlight \ {q}
  /\ \E ok \in BOOLEAN :
       IF ok
       THEN /\ cbPc' = StageAfter(q, cbIn.riUsage)
            /\ tagCost' = IF q = "tagmap" THEN cbIn.tagmap ELSE tagCost
       ELSE /\ cbPc' = "failed"
            /\ UNCHANGED tagCost
  /\ UNCHANGED << cbIn, queries >>
  /\ UNCHANGED << pipeVars, tcVars, qVars, rsVars, cbRest >>

\* the loops of processRIUsage behind its two queries
Allocate ==
  /\ cbPc = "allocate"
  /\ tagCost' = tagCost \o RiRows(cbIn.ricost, cbIn.riusage)
  /\ cbPc' = "report"
  /\ UNCHANGED << cbIn, inFlight, queries >>
  /\ UNCHANGED << pipeVars, tcVars, qVars, rsVars, cbRest >>

\* printResults(processResults(tagCost, conf), conf); return nil
Report ==
  /\ cbPc = "report"
  /\ cbPc' = "done"
  /\ UNCHANGED << cbIn, inFlight, queries, tagCost >>
  /\ UNCHANGED << pipeVars, tcVars, qVars, rsVars, cbRest >>

RIFee(svc) == << svc, "R", "I", "F", "e", "e" >>
\* the rows of the ricost result: a fee per service, or a cost that does
\* not parse
FeeRows ==
  { [service |-> RIFee("e"), cost |-> << "0", ".", "0", "0", "6" >>],
    [service |-> RIFee("r"), cost |-> << "0", ".", "0", "1", "2" >>],
    [service |-> RIFee("e"), cost |-> << "x" >>] }
\* the rows of the riusage result: normalized usage, plain usage only, none
UsageCells ==
  { << << "0", ".", "0", "0", "1" >>, << "0", ".", "0", "0", "5" >> >>,
    << << "0", ".", "0", "0", "2" >>, << "0", ".", "0", "0", "5" >> >>,
    << << "0" >>, << "0", ".", "0", "0", "2" >> >>,
    << << >>, << "x" >> >> }
UsageRows ==
  { [service |-> RIFee(svc), normalized_amount |-> u[1], amount |-> u[2],
     t1 |-> << "a", "b" >>] : svc \in {"e", "r"}, u \in UsageCells }
TagmapRows ==
  << [service |-> << "e" >>, cost |-> OneCent, t1 |-> << "a", "b" >>] >>

\* no two rows of a result are of the same service: the queries group by it
OnePerService(rows) ==
  \A i, j \in DOMAIN rows : rows[i].service = rows[j].service => i = j

InitCostByTag ==
  /\ cbIn \in [riUsage : BOOLEAN, tagmap : {TagmapRows},
               ricost : {f \in SeqsUpTo(FeeRows, MaxFeeRows) : OnePerService(f)},
               riusage : SeqsUpTo(UsageRows, MaxUsageRows)]
  /\ cbPc = "tagmap" /\ inFlight = {}
  /\ queries = << >> /\ tagCost = << >>
  /\ NoSubstitute
  /\ NoAggregate
  /\ NoPool
  /\ NoQuery /\ qPagesIn = << >>
  /\ NoResolve
  /\ manifest = [columns |-> PipelineColumns, reportKeys |-> << >>,
                 keys |-> ManifestKeys]
  /\ dest = {}
  /\ FreshConverter
  /\ NoRunYet
  /\ NoTranscode
NextCostByTag ==
  \/ \E q \in QueryNames : SendQuery(q)
  \/ \E q \in QueryNames : QueryReturns(q)
  \/ Allocate
  \/ Report
SpecCostByTag == InitCostByTag /\ [][NextCostByTag]_vars

(* ------------- the metric facility: the pool of query workers ---------- *)
\* longest conf.Metrics list
MaxMetrics == 1
\* var maxConcurrentQueries = 5
maxConcurrentQueries == 5

\* a metric of the configuration, as far as main reads it
Metric(enabled, hourly, daily) ==
  [Enabled |-> enabled, Hourly |-> hourly, Daily |-> daily]
MetricPool ==
  { Metric(FALSE, TRUE, TRUE), Metric(TRUE, TRUE, FALSE),
    Metric(TRUE, FALSE, TRUE), Metric(TRUE, TRUE, TRUE) }

\* the jobs main passes into the channel, in order: for every enabled metric
\* its hourly job, then its daily job
RECURSIVE EnabledJobs(_, _)
EnabledJobs(metrics, i) ==
  IF i > Len(metrics) THEN << >>
  ELSE LET m == metrics[i]
           hourly == IF m.Enabled /\ m.Hourly
                     THEN << [metric |-> i, interval |-> "hourly"] >>
                     ELSE << >>
           daily == IF m.Enabled /\ m.Daily
                    THEN << [metric |-> i, interval |-> "daily"] >>
                    ELSE << >>
       IN hourly \o daily \o EnabledJobs(metrics, i + 1)
JobList == EnabledJobs(mpIn, 1)

PoolWorkers == 1..maxConcurrentQueries

\* how a worker's turn with one job ends: sendQuery returns an error, or it
\* returns rows and sendMetric is called (its error is logged, nothing else)
JobEnds == {"ErrQuery", "sent"}

\* a worker whose query failed leaves the pool
AfterJobLeaves(end) == IF end = "ErrQuery" THEN "gone" ELSE "recv"

\* where a worker goes after its turn: continue after the logged query
\* error, the end of the loop body otherwise; both lead to <-jobs
AfterJob(end) == "recv"

\* jobs <- job{...}: main starts a send on the unbuffered channel
SendJob ==
  /\ mpProc = "running" /\ mpMain = "send"
  /\ mpNext <= Len(JobList) /\ jobs = 0
  /\ jobs' = mpNext
  /\ took' = Append(took, {})
  /\ jobLog' = Append(jobLog, << >>)
  /\ UNCHANGED << mpIn, mpMain, mpNext, jobsClosed, mwPc, mwJob, nDone,
                  mpProc >>
  /\ UNCHANGED << pipeVars, tcVars, qVars, rsVars, mpRest >>

\* j, ok := <-jobs with a send waiting: the worker takes the job and main's
\* send returns
ReceiveJob(w) ==
  /\ mpProc = "running" /\ mwPc[w] = "recv" /\ jobs # 0
  /\ mwPc' = [mwPc EXCEPT ![w] = "run"]
  /\ mwJob' = [mwJob EXCEPT ![w] = jobs]
  /\ took' = [took EXCEPT ![jobs] = @ \cup {w}]
  /\ jobs' = 0
  /\ mpNext' = mpNext + 1
  /\ UNCHANGED << mpIn, mpMain, jobsClosed, jobLog, nDone, mpProc >>
  /\ UNCHANGED << pipeVars, tcVars, qVars, rsVars, mpRest >>

\* substituteParams, sendQuery, sendMetric for the job the worker holds; a
\* result cell without a value makes sendQuery's page callback dereference
\* nil, and the panic of one goroutine ends the process
RunJob(w) ==
  /\ mpProc = "running" /\ mwPc[w] = "run"
  /\ \/ \E end \in JobEnds :
          /\ jobLog' = [jobLog EXCEPT ![mwJob[w]] = Append(@, end)]
          /\ mwPc' = [mwPc EXCEPT ![w] = AfterJob(end)]
          /\ mwJob' = [mwJob EXCEPT ![w] = 0]
          /\ UNCHANGED mpProc
     \/ /\ mpProc' = "exited"
        /\ UNCHANGED << jobLog, mwPc, mwJob >>
  /\ UNCHANGED << mpIn, mpMain, mpNext, jobs, jobsClosed, took, nDone >>
  /\ UNCHANGED << pipeVars, tcVars, qVars, rsVars, mpRest >>

\* close(jobs), after the last send returned
CloseJobs ==
  /\ mpProc = "running" /\ mpMain = "send"
  /\ mpNext > Len(JobList) /\ jobs = 0
  /\ jobsClosed' = TRUE
  /\ mpMain' = "wait"
  /\ UNCHANGED << mpIn, mpNext, jobs, mwPc, mwJob, took, jobLog, nDone,
                  mpProc >>
  /\ UNCHANGED << pipeVars, tcVars, qVars, rsVars, mpRest >>

\* j, ok := <-jobs on the closed channel: ok is false, and the worker's
\* done <- true meets one <-done of main's last loop; the worker returns,
\* and main returns after its maxConcurrentQueries-th receive
SignalDone(w) ==
  /\ mpProc = "running" /\ mwPc[w] = "recv" /\ jobsClosed
  /\ mpMain = "wait"
  /\ mwPc' = [mwPc EXCEPT ![w] = "gone"]
  /\ nDone' = nDone + 1
  /\ mpMain' = IF nDone + 1 = maxConcurrentQueries THEN "returned" ELSE "wait"
  /\ UNCHANGED << mpIn, mpNext, jobs, jobsClosed, mwJob, took, jobLog,
                  mpProc >>
  /\ UNCHANGED << pipeVars, tcVars, qVars, rsVars, mpRest >>

\* main after the two channels were made and the workers started
InitPool ==
  /\ mpIn \in SeqsUpTo(MetricPool, MaxMetrics)
  /\ mpMain = "send" /\ mpNext = 1 /\ jobs = 0 /\ jobsClosed = FALSE
  /\ mwPc = [w \in PoolWorkers |-> "recv"]
  /\ mwJob = [w \in PoolWorkers |-> 0]
  /\ took = << >> /\ jobLog = << >> /\ nDone = 0 /\ mpProc = "running"
  /\ manifest = [columns |-> PipelineColumns, reportKeys |-> << >>,
                 keys |-> ManifestKeys]
  /\ dest = {}
  /\ FreshConverter
  /\ NoRunYet
  /\ NoTranscode
  /\ NoQuery /\ qPagesIn = << >>
  /\ NoResolve
  /\ NoAggregate
  /\ NoSubstitute
  /\ NoCostByTag
NextPool ==
  \/ SendJob
  \/ \E w \in PoolWorkers : ReceiveJob(w)
  \/ \E w \in PoolWorkers : RunJob(w)
  \/ CloseJobs
  \/ \E w \in PoolWorkers : SignalDone(w)
SpecPool == InitPool /\ [][NextPool]_vars

\* main and every worker keep running while they can
FairSpecPool ==
  /\ SpecPool
  /\ WF_vars(SendJob \/ CloseJobs)
  /\ \A w \in PoolWorkers :
       WF_vars(ReceiveJob(w) \/ RunJob(w) \/ SignalDone(w))

(* ============================== claims ================================= *)
WorkerErrors == {"ErrDownload", "ErrConvert", "ErrUpload"}
GCResults == {"ok", "ErrList", "ErrDelete"}

\* the output key of the shard a goroutine was started with
OutputKey(w) == DestObject(LocalParquetFile(LocalFile(wkey[w])))

\* goroutines between the start of their download and the end of UploadCur
InFlight ==
  {w \in Workers :
     wpc[w] \in {"download", "parquet", "upload", "mapassign", "mapassigning"}}

\* C1: at no moment are more than fileConcurrency shards between the start
\* of their download and the end of their upload.
C1_BoundedConcurrency == Cardinality(InFlight) <= fileConcurrency

\* C1 witness: the pool is full and another goroutine waits for a slot
C1_Witness ==
  /\ Cardinality(InFlight) = fileConcurrency
  /\ \E w \in Workers : wpc[w] = "acquire"

\* C2: CleanCur begins only after every goroutine has reported success; then
\* no goroutine is still at work or writing the live set, and the live set
\* holds the output key of every shard.
C2_GCAfterAllWorkers ==
  mainPc = "clean" =>
    /\ Len(recvLog) = Len(CurFiles)
    /\ \A i \in DOMAIN recvLog : recvLog[i] = "nil"
    /\ \A w \in Workers : wpc[w] = "done"
    /\ mapWriters = {}
    /\ \A w \in Workers : OutputKey(w) \in CurParqetFiles

\* C3: once a goroutine has failed, CleanCur never runs and nothing is
\* deleted; once its error is received, ConvertCur has returned the first
\* error it received.
C3_FirstErrorNoGC ==
  /\ (\E w \in Workers : werr[w] # "nil") =>
       /\ mainPc # "clean" /\ ret \notin GCResults
       /\ deleted = {}
  /\ (\E i \in DOMAIN recvLog : recvLog[i] # "nil") =>
       /\ mainPc = "returned"
       /\ LET first == CHOOSE i \in DOMAIN recvLog :
                         /\ recvLog[i] # "nil"
                         /\ \A j \in 1..(i - 1) : recvLog[j] = "nil"
          IN ret = recvLog[first]

\* C3 witness: an error was received after a success, and the prefix holds
\* an object CleanCur would have deleted
C3_Witness ==
  /\ Len(recvLog) = 2 /\ recvLog[1] = "nil" /\ recvLog[2] \in WorkerErrors
  /\ mainPc = "returned" /\ ret = recvLog[2]
  /\ dest \ CurParqetFiles # {}

\* C4: when ConvertCur returns success, every object under destPath/ has a
\* key in the live set, however many objects the prefix held.
C4_OnlyLiveRemain ==
  (mainPc = "returned" /\ ret = "ok") => dest \subseteq CurParqetFiles

\* C5: CleanCur deletes no object whose key is in the live set, and every
\* object this run uploaded is still there after it, also when the listing
\* or the batch delete failed.
C5_UploadedSurviveGC ==
  (mainPc = "returned" /\ ret \in GCResults) =>
    /\ deleted \cap CurParqetFiles = {}
    /\ uploaded \subseteq dest

\* C6: no two goroutines write shared state at the same time; in particular
\* never two of them are inside the assignment to the live-set map.
C6_NoConcurrentMapWrite == Cardinality(mapWriters) <= 1

\* C7: after ConvertCur returned a goroutine's error, every other goroutine
\* eventually finishes (unless the process is ended first).
C7_OthersComplete ==
  (mainPc = "returned" /\ ret \in WorkerErrors)
    ~> (proc = "exited" \/ \A w \in Workers : wpc[w] = "done")

\* C8: a second run over unchanged inputs leaves under destPath/ the keys
\* the first run left, whatever the prefix held before the first run.
C8_RerunSameKeys ==
  Len(destAfter) >= 2 => destAfter[2] = destAfter[1]

CanonAt(i) == Canonicalize(RawName(manifest.columns[i]))

\* C10: after ParseCur on a fresh converter no two emitted columns share a
\* name, there are as many emitted columns as distinct canonical names, and
\* a position is marked skip exactly when an earlier position has its
\* canonical name.
C10_Dedup ==
  (mainPc = "parsed" /\ ret = "nil") =>
    /\ \A i, j \in DOMAIN CurColumns :
         i # j => CurColumns[i].name # CurColumns[j].name
    /\ Len(CurColumns) =
         Cardinality({CanonAt(i) : i \in DOMAIN manifest.columns})
    /\ \A i \in DOMAIN manifest.columns :
         (i - 1) \in skipCols <=> \E j \in 1..(i - 1) : CanonAt(j) = CanonAt(i)

\* C10 witness: two columns whose raw names differ collide, the later one is
\* skipped, and a third column is emitted after it
C10_Witness ==
  /\ mainPc = "parsed" /\ ret = "nil"
  /\ Len(manifest.columns) = 3
  /\ RawName(manifest.columns[1]) # RawName(manifest.columns[2])
  /\ skipCols = {1}
  /\ Len(CurColumns) = 2

\* the characters a column name may hold
AllowedChars == LowerSet \cup Digits \cup {"/", "_"}

\* the 1-based manifest position of the k-th emitted column
EmittedPos(k) ==
  CHOOSE i \in DOMAIN manifest.columns :
    /\ (i - 1) \notin skipCols
    /\ Cardinality({j \in 1..i : (j - 1) \notin skipCols}) = k

\* C11: after ParseCur every emitted column is named category "/" name of its
\* manifest column, lower-cased, with every character outside a-z, 0-9 and
\* '/' replaced by '_'; the name holds only a-z, 0-9, '/' and '_', and
\* canonicalising it again changes nothing.
C11_CanonicalNames ==
  (mainPc = "parsed" /\ ret = "nil") =>
    \A k \in DOMAIN CurColumns :
      LET raw == RawName(manifest.columns[EmittedPos(k)])
          nm == CurColumns[k].name
      IN /\ Len(nm) = Len(raw)
         /\ \A p \in DOMAIN raw :
              LET l == ToLowerRune(raw[p])
              IN nm[p] = IF l \in LowerSet \cup Digits \cup {"/"} THEN l ELSE "_"
         /\ \A p \in DOMAIN nm : nm[p] \in AllowedChars
         /\ Canonicalize(nm) = nm

\* C11 witness: an emitted column behind a skipped one whose raw name holds
\* an upper-case letter, a character that is substituted and a digit
C11_Witness ==
  /\ mainPc = "parsed" /\ ret = "nil"
  /\ \E k \in DOMAIN CurColumns :
       /\ EmittedPos(k) > k
       /\ manifest.columns[EmittedPos(k)].name = <<"T", ":", "1">>
       /\ CurColumns[k].name = <<"a", "/", "t", "_", "1">>

\* C13: over a manifest that lacks the columns key or the reportKeys key the
\* process keeps running, ParseCur ends with an error, and no goroutine is
\* started.
C13_MissingKeyIsError ==
  manifest.keys # ManifestKeys =>
    /\ proc = "running"
    /\ mainPc = "parsed" => ret # "nil"
    /\ Workers = {}

\* the manifest positions that are the first to carry their canonical name
FirstOccurrences ==
  {i \in DOMAIN manifest.columns :
     \A j \in 1..(i - 1) : CanonAt(j) # CanonAt(i)}

\* the m-th smallest member of a set of positions
NthOf(S, m) == CHOOSE i \in S : Cardinality({j \in S : j <= i}) = m

\* C12: every row ParquetCur writes holds, for each emitted column in order,
\* the field its record has at that column's manifest position (records have
\* as many fields as the manifest has columns); the rows are written in
\* record order, and when no write failed every record read so far was
\* written.
C12_PositionalRows ==
  LET first == FirstOccurrences
      position == [m \in DOMAIN CurColumns |-> NthOf(first, m)]
  IN
  \A w \in DOMAIN pq :
    LET rows == pq[w].rows
        recs == shardData[wkey[w]].recs
    IN /\ \A k \in DOMAIN rows :
            /\ Len(rows[k].fields) = Len(CurColumns)
            /\ \A m \in DOMAIN CurColumns :
                 rows[k].fields[m] = recs[rows[k].src].fields[position[m]]
            /\ k > 1 => rows[k - 1].src < rows[k].src
       /\ ~pq[w].fault => Len(rows) = pq[w].pos - 1

\* C12 witness: over the columns a/B, a/b the row x,y was written as x, or
\* over a/B, a/b, a/b c the row x,y,z as x,z
C12_Witness ==
  \E w \in DOMAIN pq :
    /\ pq[w].pc = "returned" /\ wpc[w] = "upload" /\ ~pq[w].fault
    /\ Len(pq[w].rows) = 2
    /\ \/ /\ manifest.columns = PipelineColumns
          /\ shardData[wkey[w]].recs[1].fields = <<"x", "y">>
          /\ pq[w].rows[1].fields = <<"x">>
       \/ /\ manifest.columns = ThreeColumns
          /\ shardData[wkey[w]].recs[1].fields = <<"x", "y", "z">>
          /\ pq[w].rows[1].fields = <<"x", "z">>


\* a shard that is not gzip data, has no header record, or holds a record
\* that cannot be parsed
ShardFault(d) ==
  ~d.gzip \/ ~d.header \/ \E k \in DOMAIN d.recs : ~d.recs[k].ok

\* C14: once ParquetCur has met the gzip or CSV fault of a shard, it has
\* returned to its goroutine, which is about to send (or has sent) a
\* conversion error; the fault does not end the process.
C14_ShardFaultIsError ==
  \A w \in Workers :
    (ShardFault(shardData[wkey[w]]) /\ pq[w].pc \in {"returned", "fatal"}) =>
      /\ pq[w].pc = "returned"
      /\ werr[w] = "ErrConvert"
      /\ wpc[w] \in {"send", "done"}

\* C15: after a row write or a flush failed inside ParquetCur, the goroutine
\* reports an error, and the shard is neither uploaded nor put in the live
\* set.
C15_EncodeFaultIsError ==
  \A w \in Workers :
    (pq[w].fault /\ pq[w].pc = "returned") =>
      /\ werr[w] # "nil"
      /\ wpc[w] \in {"send", "done"}
      /\ OutputKey(w) \notin uploaded
      /\ OutputKey(w) \notin CurParqetFiles

\* another goroutine works with temp files of the same names
SharesFiles(w) ==
  \E v \in Workers \ {w} : LocalFile(wkey[v]) = LocalFile(wkey[w])

\* C16: a goroutine that reports success has its output object uploaded and
\* its output key in the live set, and its two temp files are gone (unless
\* another goroutine uses files of the same names); the live set holds only
\* keys of objects whose upload succeeded.
C16_SuccessMeansStored ==
  /\ \A w \in Workers :
       (werr[w] = "nil" /\ wpc[w] \in {"send", "done"}) =>
         /\ OutputKey(w) \in uploaded
         /\ OutputKey(w) \in CurParqetFiles
         /\ ~SharesFiles(w) =>
              /\ LocalFile(wkey[w]) \notin tmp
              /\ LocalParquetFile(LocalFile(wkey[w])) \notin tmp
  /\ CurParqetFiles \subseteq uploaded

\* sendQuery has left its poll loop
PastPolling ==
  \/ qPc \in {"pages", "panicked"}
  \/ qPc = "done" /\ qRet.err \in {"nil", "QueryState", "GetQueryResultsPages"}

\* C17: every poll but the last observed RUNNING and the poll that ended the
\* loop did not; result pages are fetched, rows are held and success is
\* returned only after SUCCEEDED was observed; after FAILED or CANCELLED was
\* observed sendQuery returns the error that carries that state and the
\* engine's reason, and no rows.
C17_PollUntilNotRunning ==
  /\ \A i \in 1..(Len(qSeen) - 1) : qSeen[i] = "RUNNING"
  /\ PastPolling => (Len(qSeen) > 0 /\ qSeen[Len(qSeen)] # "RUNNING")
  /\ (qPc = "pages" \/ results # << >> \/ qRet.err = "nil") =>
       qrop.state = "SUCCEEDED"
  /\ (Len(qSeen) > 0 /\ qSeen[Len(qSeen)] \in {"FAILED", "CANCELLED"}) =>
       /\ qPc = "done"
       /\ qRet = Returned("QueryState", qEngine.state, qEngine.reason)
       /\ qRet.state = qSeen[Len(qSeen)] /\ qRet.reason \in Reasons
       /\ results = << >>

\* C17 witness: two polls saw RUNNING, the third CANCELLED, and the error
\* with that state and the engine's reason was returned
C17_Witness ==
  /\ qSeen = <<"RUNNING", "RUNNING", "CANCELLED">>
  /\ qPc = "done"
  /\ qRet = Returned("QueryState", "CANCELLED", "r2")

\* the rows of all pages in the order the engine delivers them
Flatten(pages) ==
  LET F[k \in 0..Len(pages)] ==
        IF k = 0 THEN << >> ELSE F[k - 1] \o pages[k]
  IN F[Len(pages)]

NoNullField(row) == \A j \in DOMAIN row : ~row[j].nil

\* a row read against the header: column name -> the field below it
ByHeader(row, header) ==
  [c \in {header[j].v : j \in DOMAIN header} |->
     row[CHOOSE j \in DOMAIN header : header[j].v = c].v]

\* C18: when sendQuery returns success, the column names are those of the
\* first row of the first page, and the rows it returns are all later rows
\* of all pages without a null field, each read against that header, in the
\* engine's order.
C18_HeaderOnce ==
  qRet.err = "nil" =>
    LET all == Flatten(qPagesIn)
        header == Head(all)
        kept == SelectSeq(Tail(all), NoNullField)
    IN /\ colNames = [j \in DOMAIN header |-> header[j].v]
       /\ results = [k \in DOMAIN kept |-> ByHeader(kept[k], header)]

\* C18 witness: the first page ends with a row that has a null field, the
\* second page starts with a data row, and only that row is returned
C18_Witness ==
  /\ qRet.err = "nil"
  /\ Len(qPagesIn) = 2
  /\ Len(qPagesIn[1]) = 2 /\ qPagesIn[1][2][2].nil
  /\ qPagesIn[2] = << << Cell("a"), Cell("b") >> >>
  /\ Len(results) = 1
  /\ results[1]["k"] = "a" /\ results[1]["c"] = "b"

\* the rules whose match list holds the value, and those with a regex that
\* compiles and matches it
ExactRules == {i \in DOMAIN rsIn.m :
                 \E j \in DOMAIN rsIn.m[i].match : rsIn.m[i].match[j] = rsIn.match}
RegexRules == {i \in DOMAIN rsIn.m :
                 \E j \in DOMAIN rsIn.m[i].regex :
                   /\ Compiles(rsIn.m[i].regex[j])
                   /\ MatchString(rsIn.m[i].regex[j], rsIn.match)}
MinOf(S) == CHOOSE x \in S : \A y \in S : x <= y

\* C19: when some rule's match list holds the value, findTagMatch returns
\* the label of the first such rule, whatever regex an earlier rule has;
\* otherwise, when some rule has a regex that matches, the label of the
\* first such rule.
C19_ExactBeforeRegex ==
  rsOut.done =>
    /\ ExactRules # {} => rsOut = Resolved(rsIn.m[MinOf(ExactRules)].value)
    /\ (ExactRules = {} /\ RegexRules # {}) =>
         rsOut = Resolved(rsIn.m[MinOf(RegexRules)].value)

\* C19 witness: rules [P: regex ab.*, Q: match abc] on the value abc give Q
C19_Witness ==
  /\ rsOut.done
  /\ Len(rsIn.m) = 2
  /\ rsIn.m[1].value = <<"P">> /\ rsIn.m[2].value = <<"Q">>
  /\ rsIn.match = <<"a","b","c">>
  /\ 1 \in RegexRules /\ ExactRules = {2}
  /\ rsOut = Resolved(<<"Q">>)

\* the cell matches a blacklist pattern registered under its own column
Blacklisted ==
  /\ rsIn.tag \in DOMAIN rsIn.blacklist
  /\ \E j \in DOMAIN rsIn.blacklist[rsIn.tag] :
       /\ Compiles(rsIn.blacklist[rsIn.tag][j])
       /\ MatchString(rsIn.blacklist[rsIn.tag][j], rsIn.match)

\* C20: when no rule matches the cell, findTagMatch returns no match for a
\* cell that matches a blacklist pattern of its own column, the cell's value
\* for any other non-empty cell, and no match for an empty one.
C20_BlacklistThenPassthrough ==
  (rsOut.done /\ ExactRules = {} /\ RegexRules = {}) =>
    rsOut = IF Blacklisted THEN NoMatch
            ELSE IF rsIn.match # << >> THEN Resolved(rsIn.match)
            ELSE NoMatch

\* C20 witness: a non-empty cell that no rule of a non-empty rule list
\* matches is blacklisted under its own column and resolves to no match
C20_Witness ==
  /\ rsOut = NoMatch
  /\ rsIn.m # << >> /\ ExactRules = {} /\ RegexRules = {}
  /\ rsIn.match = <<"z","z">>
  /\ rsIn.tag = "t1" /\ DOMAIN rsIn.blacklist = {"t1"}
  /\ Blacklisted

\* candidate i of axis tm resolves to NO_MATCH for the row
CandNoMatch(row, tm, i, blacklist) ==
  findTagMatch(RowGet(row, tm.tags[i]), tm.map, tm.tags[i], blacklist).err
CandMatch(row, tm, i, blacklist) ==
  findTagMatch(RowGet(row, tm.tags[i]), tm.map, tm.tags[i], blacklist).match
\* the first candidate, in tags order, that does not resolve to NO_MATCH
FirstResolving(row, tm, blacklist) ==
  {i \in DOMAIN tm.tags :
     /\ ~CandNoMatch(row, tm, i, blacklist)
     /\ \A j \in 1..(i - 1) : CandNoMatch(row, tm, j, blacklist)}
\* the rows processResults has gone through and not skipped
Labelled == {n \in DOMAIN rowTags : rowTags[n] # << >>}

\* C21 as stated: the tags of a row are the service and then one label per
\* axis in declared order; the label is the resolution of the first candidate
\* that does not resolve to NO_MATCH, and it is "Untagged" if and only if
\* every candidate resolves to NO_MATCH.
C21_UntaggedIffNoMatch ==
  \A n \in Labelled :
    /\ Len(rowTags[n]) = 1 + Len(conf.TagMap)
    /\ rowTags[n][1] = RowGet(resp[n], "service")
    /\ \A a \in DOMAIN conf.TagMap :
         LET tm == conf.TagMap[a]
             bl == conf.TagBlacklist
         IN /\ \A i \in FirstResolving(resp[n], tm, bl) :
                 rowTags[n][a + 1] = CandMatch(resp[n], tm, i, bl)
            /\ rowTags[n][a + 1] = Untagged
                 <=> \A i \in DOMAIN tm.tags : CandNoMatch(resp[n], tm, i, bl)

\* C21 amended: the tags of a row are the service and then one label per axis
\* in declared order; the label is the resolution of the first candidate that
\* does not resolve to NO_MATCH (which may itself be the text "Untagged"), and
\* it is the fallback "Untagged" whenever every candidate resolves to NO_MATCH.
C21_FirstResolvingCandidate ==
  \A n \in Labelled :
    /\ Len(rowTags[n]) = 1 + Len(conf.TagMap)
    /\ rowTags[n][1] = RowGet(resp[n], "service")
    /\ \A a \in DOMAIN conf.TagMap :
         LET tm == conf.TagMap[a]
             bl == conf.TagBlacklist
         IN /\ \A i \in FirstResolving(resp[n], tm, bl) :
                 rowTags[n][a + 1] = CandMatch(resp[n], tm, i, bl)
            /\ (\A i \in DOMAIN tm.tags : CandNoMatch(resp[n], tm, i, bl))
                 => rowTags[n][a + 1] = Untagged

\* a row of two axes whose first axis falls through its first candidate to
\* its second, and whose label is not the fallback
C21_Witness ==
  /\ 1 \in Labelled /\ Len(conf.TagMap) = 2
  /\ LET tm == conf.TagMap[1] IN
       /\ Len(tm.tags) = 2
       /\ FirstResolving(resp[1], tm, conf.TagBlacklist) = {2}
       /\ rowTags[1][2] # Untagged

\* every candidate column of the axis is empty in the row
AllEmpty(row, tm) == \A i \in DOMAIN tm.tags : RowGet(row, tm.tags[i]) = << >>

\* C22 as stated: a row whose value is empty for every candidate column of an
\* axis is labelled "Untagged" on that axis, whatever the rules and the
\* blacklist.
C22_EmptyIsUntagged ==
  \A n \in Labelled : \A a \in DOMAIN conf.TagMap :
    AllEmpty(resp[n], conf.TagMap[a]) => rowTags[n][a + 1] = Untagged

\* C22 amended: a row whose value is empty for every candidate column of an
\* axis is labelled "Untagged" on that axis, whatever the blacklist, if no
\* rule of the axis matches the empty string.
C22_EmptyIsUntaggedUnlessRuled ==
  \A n \in Labelled : \A a \in DOMAIN conf.TagMap :
    (AllEmpty(resp[n], conf.TagMap[a])
       /\ MatchedRule(<< >>, conf.TagMap[a].map) = 0)
      => rowTags[n][a + 1] = Untagged

\* an axis with a rule and a blacklist on its columns, all of them empty
C22_Witness ==
  /\ 1 \in Labelled
  /\ \E a \in DOMAIN conf.TagMap :
       /\ AllEmpty(resp[1], conf.TagMap[a])
       /\ conf.TagMap[a].map # << >>
       /\ MatchedRule(<< >>, conf.TagMap[a].map) = 0
       /\ conf.TagBlacklist # << >>
       /\ rowTags[1][a + 1] = Untagged

\* the sum of the amounts of a map
RECURSIVE SumOver(_, _)
SumOver(m, S) ==
  IF S = {} THEN 0
  ELSE LET k == CHOOSE x \in S : TRUE IN m[k] + SumOver(m, S \ {k})
SumOfKeys == SumOver(aggr.tagCosts, DOMAIN aggr.tagCosts)
\* the costs, as parsed, of the rows gone through that parse
ParsedCosts ==
  [n \in {i \in DOMAIN rowTags : ~ParseFloat(RowGet(resp[i], "cost")).err}
     |-> ParseFloat(RowGet(resp[n], "cost")).f]
ParsedSum == SumOver(ParsedCosts, DOMAIN ParsedCosts)

\* C23 as stated: after any sequence of rows the per-key amounts sum to the
\* running total, and a row whose cost does not parse is skipped and changes
\* neither a per-key amount nor the total.
C23_KeysSumToTotal ==
  /\ SumOfKeys = aggr.total
  /\ \A n \in DOMAIN rowTags :
       ParseFloat(RowGet(resp[n], "cost")).err <=> rowTags[n] = << >>

\* C23 amended: after any sequence of rows the sum of the per-key amounts and
\* the running total both lie within the rounding of the additions made of
\* the exact sum of the costs that parsed, so they are equal whenever no
\* addition rounded; a row whose cost does not parse is skipped: it adds no
\* key and changes neither a per-key amount nor the total.
C23_KeysSumToTotalUpToRounding ==
  /\ Abs(SumOfKeys - aggr.total) <= slack
  /\ Abs(aggr.total - ParsedSum) <= slack
  /\ Abs(SumOfKeys - ParsedSum) <= slack
  /\ DOMAIN aggr.tagCosts = {Join(rowTags[n], << "," >>) : n \in Labelled}
  /\ \A n \in DOMAIN rowTags :
       ParseFloat(RowGet(resp[n], "cost")).err <=> rowTags[n] = << >>

\* a skipped row between two rows of different groups, no addition rounded
C23_Witness ==
  /\ Len(rowTags) = 3 /\ rowTags[2] = << >>
  /\ Cardinality(DOMAIN aggr.tagCosts) = 2
  /\ slack = 0 /\ aggr.total > 0 /\ SumOfKeys = aggr.total

\* the report of the run that has just ended, and its lines between the
\* header and the rule
LastReport == out[Len(out)]
ReportRows(rep) == SubSeq(rep, 2, Len(rep) - 2)
\* the keys whose amount, rounded to two decimals, is above 0.01
ShownKeys == {k \in DOMAIN aggr.tagCosts : Cents(aggr.tagCosts[k]) > 1}
\* the key of S with i - 1 keys of S below it
NthKey(S, i) == CHOOSE k \in S : Cardinality({j \in S : StrLess(j, k)}) = i - 1

\* C26: the report lists the composite keys in strictly increasing
\* lexicographic order, each at most once, and a key is listed exactly when
\* its amount rounded to two decimals is greater than 0.01.
C26_SortedAboveOneCent ==
  (agPc = "done" /\ out # << >>) =>
    LET rows == ReportRows(LastReport) IN
    /\ Len(rows) = Cardinality(ShownKeys)
    /\ \A i \in DOMAIN rows :
         LET k == NthKey(ShownKeys, i) IN
         rows[i] = k \o << "," >> \o Fmt2(aggr.tagCosts[k])

\* a report of two lines for three groups
C26_Witness ==
  /\ agPc = "done" /\ out # << >>
  /\ Cardinality(ShownKeys) = 2
  /\ Cardinality(DOMAIN aggr.tagCosts) = 3
  /\ Len(ReportRows(LastReport)) = 2

\* C28: two runs of the aggregation and the report over the same rows and
\* the same configuration write the same lines.
C28_SameReport == \A i, j \in DOMAIN out : out[i] = out[j]

\* two reports of at least two lines each
C28_Witness ==
  /\ Len(out) = 2
  /\ Len(ReportRows(out[1])) >= 2 /\ Len(ReportRows(out[2])) >= 2

\* what a segment of the template is to become
Substituted(seg, params) == IF seg \in DOMAIN params THEN params[seg] ELSE seg

Allocated == cbIn # << >> /\ cbIn.riUsage /\ cbPc \in {"report", "done"}
\* the rows processRIUsage appended to tagCost.Rows
Appended == SubSeq(tagCost, Len(cbIn.tagmap) + 1, Len(tagCost))
\* the synthetic costs of the first n appended rows of a service, summed
RECURSIVE Allocation(_, _, _)
Allocation(rows, svc, n) ==
  IF n = 0 THEN Rat(0, 1)
  ELSE IF rows[n].service = svc /\ "cost" \in DOMAIN rows[n]
       THEN RatAdd(Allocation(rows, svc, n - 1), ParseRat(rows[n].cost))
       ELSE Allocation(rows, svc, n - 1)

\* C24: with RI allocation, for every service with a fee in the ricost
\* result the synthetic costs of that service's riusage rows sum to the fee:
\* nothing of a fee is lost and nothing is counted twice.
C24_FeeFullyAllocated ==
  Allocated =>
    LET fees == RiCostPerService(cbIn.ricost, Len(cbIn.ricost)) IN
    \A svc \in DOMAIN fees :
      RatEq(Allocation(Appended, svc, Len(Appended)), Rat(fees[svc], 1))

\* the queries of a run with RI allocation, in the order of the calls
CallOrder == << "tagmap", "ricost", "riusage" >>
IsPrefix(s, t) == Len(s) <= Len(t) /\ s = SubSeq(t, 1, Len(s))

\* C25 as stated: in a run with RI allocation the queries go to the engine
\* one at a time, in the order ricost, riusage, tagmap.
C25_RicostRiusageTagmap ==
  (cbIn # << >> /\ cbIn.riUsage) =>
    /\ Cardinality(inFlight) <= 1
    /\ IsPrefix(queries, << "ricost", "riusage", "tagmap" >>)
    /\ cbPc = "done" => Len(queries) = 3

\* C25 amended: in a run with RI allocation the queries go to the engine one
\* at a time, in the order tagmap, ricost, riusage; a run that ends without
\* error has sent all three.
C25_TagmapRicostRiusage ==
  (cbIn # << >> /\ cbIn.riUsage) =>
    /\ Cardinality(inFlight) <= 1
    /\ IsPrefix(queries, CallOrder)
    /\ cbPc = "done" => queries = CallOrder

\* a run with RI allocation that has ended without error
C25_Witness ==
  /\ cbIn # << >> /\ cbIn.riUsage
  /\ cbPc = "done" /\ Len(queries) = 3 /\ inFlight = {}

\* C29: while a shard is transcoded the writer is flushed each time 5,000
\* rows have been written since the flush before, so that the rows flushed
\* inside the loop come in batches of 5,000, and once more at the end of the
\* stream: every row written is flushed when ParquetCur returns the file.
C29_FlushEvery5000 ==
  \A w \in DOMAIN pq :
    /\ pq[w].pc = "loop" => pq[w].flushed % FlushEvery = 0
    /\ pq[w].buffered <= FlushEvery
    /\ (pq[w].pc = "returned" /\ nParquet[w] > 0)
         => pq[w].buffered = 0 /\ pq[w].flushed = pq[w].written

\* the state the last poll saw
Polled == Len(qSeen) > 0
LastSeen == qSeen[Len(qSeen)]

\* C30: if no status call fails and the engine comes to report a state other
\* than RUNNING, sendQuery returns; it has no deadline: as long as the polls
\* see RUNNING it is in its poll loop and has not returned.
C30_ReturnsOncePastRunning ==
  /\ (Polled /\ LastSeen # "RUNNING") ~> (qPc = "done")
  /\ [](Polled /\ LastSeen = "RUNNING"
          => qPc = "poll" \/ qRet.err = "GetQueryExecution")
\* C31: in the pool of maxConcurrentQueries workers every job main sends is
\* received by exactly one worker and run once; a worker whose query failed
\* goes back to receiving; main returns only after close(jobs) and after all
\* workers signalled done; and the pool does not get stuck: main returns,
\* unless a panic in a worker ended the process
PoolJobsOnce ==
  /\ \A j \in DOMAIN took :
       /\ Cardinality(took[j]) <= 1
       /\ (j < mpNext) = (Cardinality(took[j]) = 1)
       /\ Len(jobLog[j]) <= 1
  /\ \A w \in DOMAIN mwPc :
       mwPc[w] = "run" => w \in took[mwJob[w]] /\ jobLog[mwJob[w]] = << >>
PoolReturnsLast ==
  mpMain = "returned" =>
    /\ jobsClosed /\ nDone = maxConcurrentQueries
    /\ \A w \in DOMAIN mwPc : mwPc[w] = "gone"
    /\ Len(took) = Len(JobList)
    /\ \A j \in DOMAIN jobLog : Len(jobLog[j]) = 1
FailedQueryKeepsWorker ==
  \A w \in DOMAIN mwPc :
    (mwPc[w] = "run" /\ mwPc'[w] # "run" /\
     jobLog'[mwJob[w]] = << "ErrQuery" >>) => mwPc'[w] = "recv"
C31_PoolRunsEveryJobOnce ==
  /\ [](PoolJobsOnce /\ PoolReturnsLast)
  /\ [][FailedQueryKeepsWorker]_vars
  /\ <>(mpMain = "returned" \/ mpProc = "exited")
\* main has returned from a pool in which a worker ran a second job after
\* its first one's query failed
C31_Witness ==
  /\ mpIn # << >> /\ mpMain = "returned"
  /\ \E j1, j2 \in DOMAIN took :
       j1 < j2 /\ took[j1] = took[j2] /\ jobLog[j1] = << "ErrQuery" >>
\* C32: if the manifest parses and no download, transcode or upload fails,
\* ConvertCur does not get stuck: every goroutine gets its slot and ends,
\* CleanCur is called (once: it is ConvertCur's return statement) and
\* ConvertCur returns
MapWriteCrashed ==
  proc = "exited" /\ \E w \in DOMAIN wpc :
                       wpc[w] = "mapassigning" /\ w \notin mapWriters
ShardStepFailed ==
  \/ \E w \in DOMAIN werr : werr[w] # "nil"
  \/ \* log.Fatal in ParquetCur
     proc = "exited" /\ mainPc # "returned" /\ ~MapWriteCrashed
AllShardsEnded == \A w \in DOMAIN wpc : wpc[w] = "done"
C32_SuccessTerminates ==
  [](manifest.keys = ManifestKeys /\ ret # "ErrParse" /\ ~ShardStepFailed)
    => <>(/\ mainPc = "returned" /\ ret \in {"ok", "ErrList", "ErrDelete"}
          /\ AllShardsEnded /\ limit = 0)
\* C33: a goroutine that took a slot gives it back when it ends, whether it
\* ends with nil or with an error: the slots held are never more than the
\* goroutines that are between limit <- true and their last statement
InPipeline ==
  { w \in DOMAIN wpc :
      wpc[w] \in {"download", "parquet", "upload", "mapassign",
                  "mapassigning", "remove", "release"} }
C33_SlotReleasedOnEveryPath == limit <= Cardinality(InPipeline)
\* C34: a query that sendQuery first sees QUEUED and that reaches SUCCEEDED
\* has its rows returned: unless a status call fails, sendQuery leaves its
\* poll loop only when it has seen a terminal state, and it goes on to fetch
\* the rows when that state is SUCCEEDED
TerminalStates == {"SUCCEEDED", "FAILED", "CANCELLED"}
SeenFirstQueued == Polled /\ qSeen[1] = "QUEUED"
C34_QueuedIsPolledOn ==
  (SeenFirstQueued /\ qPc # "poll" /\ qRet.err # "GetQueryExecution") =>
    /\ LastSeen \in TerminalStates
    /\ LastSeen = "SUCCEEDED" => qPc \in {"pages", "done"}
\* C35: two goroutines started with different shard keys use different temp
\* files and write different output keys, and after a successful run over
\* pairwise different keys the live set has one key per shard
DistinctKeys == \A v, w \in Workers : v # w => wkey[v] # wkey[w]
C35_DistinctKeysDistinctFiles ==
  /\ \A v, w \in Workers :
       wkey[v] # wkey[w] =>
         /\ LocalFile(wkey[v]) # LocalFile(wkey[w])
         /\ LocalParquetFile(LocalFile(wkey[v])) #
              LocalParquetFile(LocalFile(wkey[w]))
         /\ OutputKey(v) # OutputKey(w)
  /\ (mainPc = "returned" /\ ret = "ok" /\ DistinctKeys) =>
       Cardinality(CurParqetFiles) = Len(manifest.reportKeys)
\* C36: a second call of ParseCur on the same converter, the manifest
\* unchanged, leaves the emitted schema, the shard list and the skip set as
\* the first call left them: names stay unique, each shard is listed once
AfterFirstParse == ParseCurColumns(manifest, << >>)
C36_ParseTwiceSameState ==
  (mainPc = "reparsed" /\ ret = "nil") =>
    /\ CurColumns = AfterFirstParse.out
    /\ skipCols = AfterFirstParse.skip
    /\ CurFiles = manifest.reportKeys
    /\ \A i, j \in DOMAIN CurColumns :
         i # j => CurColumns[i].name # CurColumns[j].name
\* the SQL substituteParams builds when range params gives the keys in the
\* order of the sequence order
RECURSIVE SubstitutedIn(_, _, _)
SubstitutedIn(s, params, order) ==
  IF order = << >> THEN s
  ELSE SubstitutedIn(ReplaceEvery(s, Head(order), params[Head(order)]),
                     params, Tail(order))

\* C37: what substituteParams returns depends on the template and the
\* parameter map only: it is what every order of applying the map's entries
\* gives, also when a value holds the token of another parameter
C37_OrderIndependent ==
  spRet.done =>
    \A order \in Orders(DOMAIN spIn.params) :
      SubstitutedIn(Join(spIn.template, << >>), spIn.params, order) = spRet.sql
\* C38: two rows are accumulated under one key of r.tagCosts only if they
\* have the same service and the same label on every axis, whatever the
\* cells hold, commas too
C38_KeyDeterminesGroup ==
  \A i, j \in DOMAIN rowTags :
    (/\ rowTags[i] # << >> /\ rowTags[j] # << >>
     /\ Join(rowTags[i], << "," >>) = Join(rowTags[j], << "," >>))
      => rowTags[i] = rowTags[j]

\* C39: when the metric front-end's sendQuery returns without error over a
\* result of several pages, results.Rows holds every row but the first row
\* of the first page, decoded with the names of that row, in order
C39_EveryDataRowReturned ==
  (qPc = "done" /\ qRet.err = "nil") =>
    LET all == Flatten(qPagesIn)
        names == [j \in 1..Len(all[1]) |-> all[1][j].v]
    IN results = [k \in 1..(Len(all) - 1) |-> DecodeRow(all[k + 1], names)]

====
